---- MODULE Spec2Model ----
(***************************************************************************)
(* The scroll <-> year mapping of the Bible timeline (data-loader.js,      *)
(* buildYearMapping) and the queries made on it.                           *)
(*                                                                         *)
(* Numbers.  JavaScript numbers are modelled as exact rationals <<n, d>>   *)
(* (d > 0, lowest terms); <<0, 0>> is NaN, the value of 0/0.  Years are    *)
(* integers.  Math.sqrt is irrational, so segment weights are kept in      *)
(* fixed point: a weight w is stored as the integer floor(w * WeightScale).*)
(* Everything after the weights (normalisation, interpolation, rounding)   *)
(* is exact.                                                               *)
(***************************************************************************)
EXTENDS Integers, Sequences, FiniteSets, TLC

\* ------------------------------------------------------------------ bounds
\* at most this many books and milestones together are given to buildYearMapping
MaxIntervals == 2
\* resolution of the fixed-point segment weights (units of 1/WeightScale)
WeightScale == 16
\* scroll positions queried are the multiples of 1/PosDen in [-1/PosDen, 1 + 1/PosDen]
PosDen == 4
\* book durations up to this many years are tried on the duration bonus
MaxDuration == 200
\* the page layout in pixels: introSection.offsetHeight, window.innerHeight,
\* closingSection.offsetTop, and the largest window.scrollY
IntroHeight == 4
InnerHeight == 4
ClosingOffset == 20
MaxScrollY == 20
\* scroll events are counted up to this many
MaxCounted == 2
\* animation-frame callbacks queued at once, at most
MaxPending == 3
\* the number of books on the crowded shelf given to the BookManager
ShelfSize == 13
\* at most this many messages are given to the MessageManager
MaxMessages == 2
\* message-box elements alive at once (in the container or awaited by a callback)
MaxElements == 2
\* 600 ms timers of the canonization pulse pending at once
MaxPulses == 2
\* the longest step of time, in ms
TimeStep == 25
\* timers of the debounced resize listener pending at once
MaxTimers == 2

\* --------------------------------------------------------------- constants
\* book-manager.js
LEAD_YEARS_MIN == 1
LEAD_YEARS_MAX == 20
SCROLL_RANGE_MIN == 30
SCROLL_RANGE_MAX == 120
GRID_COLUMNS == 4
GRID_ROWS == 3
RESIZE_DELAY == 100
LEAD_YEARS == 15
CARD_HEIGHT == 160
TOTAL_CELLS == GRID_COLUMNS * GRID_ROWS
\* the years a book or milestone date may take, and the clock's year
Years == {-100, 0, 1}
CurrentYears == {0, 100}
\* the years yearToScroll is asked about: grid years, years between, years outside
YearQueries == {-5000, -100, -50, 0, 1, 50, 100, 200}

\* ------------------------------------------------------- nullable values
Null == <<>>
Some(y) == <<y>>

\* ------------------------------------------------- JavaScript arithmetic
Abs(x) == IF x < 0 THEN -x ELSE x
Max2(a, b) == IF a >= b THEN a ELSE b

RECURSIVE GCD(_, _)
GCD(a, b) == IF b = 0 THEN a ELSE GCD(b, a % b)

NaN == <<0, 0>>
IsNaN(a) == a[2] = 0

\* n/d in lowest terms with a positive denominator; x/0 is NaN (the only
\* quotient by zero the program forms is 0/0)
Rat(n, d) ==
    IF d = 0 THEN NaN
    ELSE LET g == GCD(Abs(n), Abs(d))
             s == IF d < 0 THEN -1 ELSE 1
         IN  <<s * (n \div g), s * (d \div g)>>

Num(n) == <<n, 1>>

\* a < b, a <= b; every comparison with NaN is false
RLt(a, b) ==
    /\ ~IsNaN(a)
    /\ ~IsNaN(b)
    /\ LET g == GCD(a[2], b[2]) IN a[1] * (b[2] \div g) < b[1] * (a[2] \div g)
RLeq(a, b) ==
    /\ ~IsNaN(a)
    /\ ~IsNaN(b)
    /\ LET g == GCD(a[2], b[2]) IN a[1] * (b[2] \div g) <= b[1] * (a[2] \div g)
RGeq(a, b) == RLeq(b, a)

RAdd(a, b) ==
    IF IsNaN(a) \/ IsNaN(b) THEN NaN
    ELSE LET g == GCD(a[2], b[2])
         IN  Rat(a[1] * (b[2] \div g) + b[1] * (a[2] \div g), (a[2] \div g) * b[2])
RSub(a, b) == RAdd(a, <<-b[1], b[2]>>)
RMul(a, b) ==
    IF IsNaN(a) \/ IsNaN(b) THEN NaN
    ELSE LET g1 == GCD(Abs(a[1]), b[2])
             g2 == GCD(Abs(b[1]), a[2])
         IN  Rat((a[1] \div g1) * (b[1] \div g2), (a[2] \div g2) * (b[2] \div g1))
RDiv(a, b) ==
    IF IsNaN(a) \/ IsNaN(b) \/ b[1] = 0 THEN NaN
    ELSE RMul(a, IF b[1] < 0 THEN <<-b[2], -b[1]>> ELSE <<b[2], b[1]>>)

\* Math.max / Math.min: NaN if either argument is NaN
MathMax(a, b) == IF IsNaN(a) \/ IsNaN(b) THEN NaN ELSE IF RLeq(a, b) THEN b ELSE a
MathMin(a, b) == IF IsNaN(a) \/ IsNaN(b) THEN NaN ELSE IF RLeq(a, b) THEN a ELSE b

\* Math.round of a finite number: the nearest integer, halves towards +infinity
MathRound(a) == (2 * a[1] + a[2]) \div (2 * a[2])

\* floor(sqrt(n)) by bisection
RECURSIVE ISqrtBetween(_, _, _)
ISqrtBetween(n, lo, hi) ==
    IF lo = hi THEN lo
    ELSE LET mid == (lo + hi + 1) \div 2
         IN  IF mid * mid <= n THEN ISqrtBetween(n, mid, hi)
                               ELSE ISqrtBetween(n, lo, mid - 1)
ISqrt(n) == ISqrtBetween(n, 0, n)

\* Math.sqrt(x) in fixed point: floor(sqrt(x) * WeightScale)
MathSqrt(x) == ISqrt(x * WeightScale * WeightScale)

\* ------------------------------------------------------------- sequences
\* The comparators the program sorts with, (a, b) => <negative iff a first>:
\*   "event.year"  (a, b) => a.year - b.year
\*   "number"      (a, b) => a - b
\*   "entry[1]"    (a, b) => a[1] - b[1]   (a NaN difference orders nothing)
\*   "entry[0]"    (a, b) => a[0] - b[0]
\*   "a.start"     (a, b) => a.start - b.start
\*   "a.yearStart" (a, b) => a.yearStart - b.yearStart
\*   "a.year"      (a, b) => a.year - b.year
\*   "a.milestone.year" (a, b) => a.milestone.year - b.milestone.year
\* as Before, with the by-year comparator of entries written (a, b) => b[0] - a[0]
BeforeYearFlipped(a, b, cmp) ==
    CASE cmp = "event.year" -> a.year < b.year
      [] cmp = "number"     -> a < b
      [] cmp = "entry[1]"   -> RLt(a[2], b[2])
      [] cmp = "entry[0]"   -> b[1] < a[1]
      [] cmp = "a.start"    -> a.start < b.start
      [] cmp = "a.yearStart" -> a.yearStart < b.yearStart
      [] cmp = "a.year"     -> a.year < b.year
      [] cmp = "a.milestone.year" -> a.milestone.year < b.milestone.year

Before(a, b, cmp) ==
    CASE cmp = "event.year" -> a.year < b.year
      [] cmp = "number"     -> a < b
      [] cmp = "entry[1]"   -> RLt(a[2], b[2])
      [] cmp = "entry[0]"   -> a[1] < b[1]
      [] cmp = "a.start"    -> a.start < b.start
      [] cmp = "a.yearStart" -> a.yearStart < b.yearStart
      [] cmp = "a.year"     -> a.year < b.year
      [] cmp = "a.milestone.year" -> a.milestone.year < b.milestone.year

\* Array.prototype.sort: stable, here by insertion
RECURSIVE InsertSorted(_, _, _)
InsertSorted(s, x, cmp) ==
    IF s = <<>> THEN <<x>>
    ELSE IF Before(x, s[Len(s)], cmp)
         THEN Append(InsertSorted(SubSeq(s, 1, Len(s) - 1), x, cmp), s[Len(s)])
         ELSE Append(s, x)
RECURSIVE Sort(_, _)
Sort(s, cmp) ==
    IF s = <<>> THEN <<>>
    ELSE InsertSorted(Sort(SubSeq(s, 1, Len(s) - 1), cmp), s[Len(s)], cmp)

\* [...new Set(s)]: the distinct elements in order of first occurrence
RECURSIVE SetOrder(_)
SetOrder(s) ==
    IF s = <<>> THEN <<>>
    ELSE LET front == SetOrder(SubSeq(s, 1, Len(s) - 1))
         IN  IF \E i \in 1..Len(front) : front[i] = s[Len(s)] THEN front
             ELSE Append(front, s[Len(s)])

\* a Map as the sequence of its <<key, value>> entries in insertion order
MapHas(m, k) == \E i \in 1..Len(m) : m[i][1] = k
MapGet(m, k) == m[CHOOSE i \in 1..Len(m) : m[i][1] = k][2]
MapSet(m, k, v) ==
    IF MapHas(m, k) THEN [i \in 1..Len(m) |-> IF m[i][1] = k THEN <<k, v>> ELSE m[i]]
    ELSE Append(m, <<k, v>>)

\* Map.prototype.delete: the entries keep their order
MapDelete(m, k) ==
    LET keep == {i \in 1..Len(m) : m[i][1] # k}
        nth(j) == CHOOSE i \in keep : Cardinality({h \in keep : h < i}) = j - 1
    IN  [j \in 1..Cardinality(keep) |-> m[nth(j)]]

SeqsUpTo(S, n) == UNION {[1..k -> S] : k \in 0..n}

\* ------------------------------------------------------------- the inputs
\* A book record, reduced to the four date fields buildYearMapping reads.  A
\* date is Null or Some(year); a book with a start date has an end date.
WrittenDates == {<<Null, Null>>, <<Some(0), Some(1)>>}
BookInputs ==
    {[dateEventsStart |-> Some(s), dateEventsEnd |-> Some(e),
      dateWrittenStart |-> Null, dateWrittenEnd |-> Null] : s \in Years, e \in Years}
    \cup
    {[dateEventsStart |-> Null, dateEventsEnd |-> Null,
      dateWrittenStart |-> w[1], dateWrittenEnd |-> w[2]] : w \in WrittenDates}
MilestoneInputs ==
    {[year |-> s, displayStart |-> s, displayEnd |-> e] : s \in Years, e \in Years}

\* multiples of 1/PosDen from just below 0 to just above 1
ScrollInputs == {Rat(n, PosDen) : n \in -1..(PosDen + 1)} \cup {Rat(1, 2)}

VARIABLES
    books,          \* booksData.books, the argument of buildYearMapping
    milestones,     \* the milestones argument of buildYearMapping
    CURRENT_YEAR,   \* new Date().getFullYear() when the module was loaded
    yearMapping,    \* main.js: null until buildYearMapping has returned
    call,           \* the last query made on yearMapping and what it returned
    scrollY,        \* window.scrollY
    ticking,        \* initScrollHandler: let ticking
    pending,        \* requestAnimationFrame callbacks of the scroll listener not yet run
    view,           \* what the last handleScroll put on the page
    frameRuns,      \* handleScroll runs made by the last animation frame that had callbacks
    sinceRun,       \* scroll events since the last handleScroll started (up to MaxCounted)
    served,         \* scroll events the last frame's handleScroll came after
    resize,         \* the debounced resize listener: its timers and its record
    messages,       \* MESSAGES, the argument of new MessageManager
    bookManager,    \* main.js: null until init() has made the BookManager
    messageManager, \* main.js: null until init() has made the MessageManager
    milestoneCardManager,   \* main.js: null until init() has made the MilestoneCardManager
    renderer        \* main.js: null until init() has made the TimelineRenderer

mappingVars == <<books, milestones, CURRENT_YEAR, yearMapping>>
managerVars == <<messages, bookManager, messageManager, milestoneCardManager, renderer>>
scrollVars == <<scrollY, ticking, pending, view, frameRuns, sinceRun, served, resize>>
pageVars == <<scrollY, ticking, pending, view, frameRuns, sinceRun, served, resize,
              messages, bookManager, messageManager, milestoneCardManager, renderer>>
vars == <<books, milestones, CURRENT_YEAR, yearMapping, call,
          scrollY, ticking, pending, view, frameRuns, sinceRun, served, resize,
          messages, bookManager, messageManager, milestoneCardManager, renderer>>

\* ----------------------------------------------------- buildYearMapping
\* as GetDisplayDate, without the fallback to the writing dates
GetDisplayDateNoFallback(book) ==
    [start |-> book.dateEventsStart, end |-> book.dateEventsEnd, isWritingDate |-> FALSE]

GetDisplayDate(book) ==
    IF book.dateEventsStart # Null
    THEN [start |-> book.dateEventsStart, end |-> book.dateEventsEnd, isWritingDate |-> FALSE]
    ELSE [start |-> book.dateWrittenStart, end |-> book.dateWrittenEnd, isWritingDate |-> TRUE]

\* books.forEach(...): the events pushed for the first n books
RECURSIVE BookEvents(_, _)
BookEvents(bs, n) ==
    IF n = 0 THEN <<>>
    ELSE LET date == GetDisplayDate(bs[n])
         IN  IF date.start # Null
             THEN BookEvents(bs, n - 1)
                    \o << [year |-> date.start[1], type |-> "start", id |-> n],
                          [year |-> date.end[1], type |-> "end", id |-> n] >>
             ELSE BookEvents(bs, n - 1)

\* books.forEach(...): the bookRanges pushed for the first n books
RECURSIVE BookRanges(_, _)
BookRanges(bs, n) ==
    IF n = 0 THEN <<>>
    ELSE LET date == GetDisplayDate(bs[n])
         IN  IF date.start # Null
             THEN Append(BookRanges(bs, n - 1), [start |-> date.start[1], end |-> date.end[1]])
             ELSE BookRanges(bs, n - 1)

\* milestones.forEach(...): the events pushed for the first n milestones
RECURSIVE MilestoneEvents(_, _)
MilestoneEvents(ms, n) ==
    IF n = 0 THEN <<>>
    ELSE MilestoneEvents(ms, n - 1)
           \o << [year |-> ms[n].displayStart, type |-> "milestone-start", id |-> n],
                 [year |-> ms[n].displayEnd, type |-> "milestone-end", id |-> n] >>

MilestoneRanges(ms) ==
    [n \in 1..Len(ms) |->
        [start |-> ms[n].displayStart, end |-> ms[n].displayEnd, year |-> ms[n].year]]

\* the events array after events.sort((a, b) => a.year - b.year)
SortedEvents(bs, ms) ==
    Sort(BookEvents(bs, Len(bs)) \o MilestoneEvents(ms, Len(ms)), "event.year")

\* as UniqueYears, without CURRENT_YEAR appended
UniqueYearsNoWaypoint(evs, cy) ==
    Sort(SetOrder([i \in 1..Len(evs) |-> evs[i].year]), "number")

\* [...new Set(events.map(e => e.year)), CURRENT_YEAR].sort((a, b) => a - b)
UniqueYears(evs, cy) ==
    Sort(Append(SetOrder([i \in 1..Len(evs) |-> evs[i].year]), cy), "number")

\* the ranges r with year >= r.start && year <= r.end
ActiveRanges(ranges, year) ==
    {i \in 1..Len(ranges) : year >= ranges[i].start /\ year <= ranges[i].end}

\* Math.min(...active.map(r => r.end - r.start)), Infinity (here Null) if none
GetActiveBooksInfo(bookRanges, year) ==
    LET active == ActiveRanges(bookRanges, year)
        dur(i) == bookRanges[i].end - bookRanges[i].start
    IN  [count |-> Cardinality(active),
         minDuration |-> IF active # {}
                         THEN Some(CHOOSE d \in {dur(i) : i \in active} :
                                      \A i \in active : d <= dur(i))
                         ELSE Null]

GetActiveMilestonesInfo(milestoneRanges, year) ==
    [count |-> Cardinality(ActiveRanges(milestoneRanges, year))]

\* as DurationBonus33, with the test written minDuration > 100
DurationBonus33Flipped(minDuration) ==
    IF minDuration > 100 THEN Max2(33, 132 - minDuration) ELSE 33

\* The factor densityMultiplier is multiplied by for the shortest active book, in
\* 33rds: durationBonus = Math.max(1, 4 - d/33) = max(33, 132 - d)/33 if d < 100,
\* and 1 = 33/33 (no multiplication) otherwise
DurationBonus33(minDuration) ==
    IF minDuration < 100 THEN Max2(33, 132 - minDuration) ELSE 33

\* as ScrollWeight, with the milestone test a second "if" instead of "else if"
ScrollWeightBothBonuses(prevYear, year, bookRanges, milestoneRanges) ==
    LET gap == year - prevYear
        base == MathSqrt(Abs(gap))
        midYear == MathRound(Rat(prevYear + year, 2))
        activeInfo == GetActiveBooksInfo(bookRanges, midYear)
        activeMilestones == GetActiveMilestonesInfo(milestoneRanges, midYear)
        booked == IF activeInfo.count > 0
                  THEN (base * (8 + 3 * activeInfo.count)
                          * DurationBonus33(activeInfo.minDuration[1])) \div 66
                  ELSE base
    IN  IF activeMilestones.count > 0
        THEN booked * (40 + activeMilestones.count * 20)
        ELSE booked

\* as ScrollWeight, with scrollWeight /= densityMultiplier
ScrollWeightDivides(prevYear, year, bookRanges, milestoneRanges) ==
    LET gap == year - prevYear
        base == MathSqrt(Abs(gap))
        midYear == MathRound(Rat(prevYear + year, 2))
        activeInfo == GetActiveBooksInfo(bookRanges, midYear)
        activeMilestones == GetActiveMilestonesInfo(milestoneRanges, midYear)
    IN  IF activeInfo.count > 0
        THEN (base * 66) \div ((8 + 3 * activeInfo.count)
                                 * DurationBonus33(activeInfo.minDuration[1]))
        ELSE IF activeMilestones.count > 0
        THEN base * (40 + activeMilestones.count * 20)
        ELSE base

\* as ScrollWeight, with the gap counted as the years strictly between the two
ScrollWeightGapLessOne(prevYear, year, bookRanges, milestoneRanges) ==
    LET gap == year - prevYear - 1
        base == MathSqrt(Abs(gap))
        midYear == MathRound(Rat(prevYear + year, 2))
        activeInfo == GetActiveBooksInfo(bookRanges, midYear)
        activeMilestones == GetActiveMilestonesInfo(milestoneRanges, midYear)
    IN  IF activeInfo.count > 0
        THEN (base * (8 + 3 * activeInfo.count)
                * DurationBonus33(activeInfo.minDuration[1])) \div 66
        ELSE IF activeMilestones.count > 0
        THEN base * (40 + activeMilestones.count * 20)
        ELSE base

\* The body of the weight loop for the segment prevYear..year: scrollWeight,
\* in units of 1/WeightScale.  densityMultiplier = 4 + 1.5 count = (8 + 3 count)/2,
\* times durationBonus in 33rds.
ScrollWeight(prevYear, year, bookRanges, milestoneRanges) ==
    LET gap == year - prevYear
        base == MathSqrt(Abs(gap))
        midYear == MathRound(Rat(prevYear + year, 2))
        activeInfo == GetActiveBooksInfo(bookRanges, midYear)
        activeMilestones == GetActiveMilestonesInfo(milestoneRanges, midYear)
    IN  IF activeInfo.count > 0
        THEN (base * (8 + 3 * activeInfo.count)
                * DurationBonus33(activeInfo.minDuration[1])) \div 66
        ELSE IF activeMilestones.count > 0
        THEN base * (40 + activeMilestones.count * 20)
        ELSE base

\* as WeightLoop, with yearPositions.set(year, scrollWeight): the segment's own
\* weight is stored instead of the running total
RECURSIVE WeightLoopStoresWeight(_, _, _, _)
WeightLoopStoresWeight(uniqueYears, i, bookRanges, milestoneRanges) ==
    IF i = 1 THEN [yearPositions |-> <<<<uniqueYears[1], 0>>>>, accumulatedPosition |-> 0]
    ELSE LET before == WeightLoopStoresWeight(uniqueYears, i - 1, bookRanges, milestoneRanges)
             w == ScrollWeight(uniqueYears[i - 1], uniqueYears[i], bookRanges, milestoneRanges)
         IN  [yearPositions |-> MapSet(before.yearPositions, uniqueYears[i], w),
              accumulatedPosition |-> before.accumulatedPosition + w]

\* The weight loop over uniqueYears[1..i] (1-based): the yearPositions Map and
\* accumulatedPosition after it
RECURSIVE WeightLoop(_, _, _, _)
WeightLoop(uniqueYears, i, bookRanges, milestoneRanges) ==
    IF i = 1 THEN [yearPositions |-> <<<<uniqueYears[1], 0>>>>, accumulatedPosition |-> 0]
    ELSE LET before == WeightLoop(uniqueYears, i - 1, bookRanges, milestoneRanges)
             acc == before.accumulatedPosition
                      + ScrollWeight(uniqueYears[i - 1], uniqueYears[i], bookRanges, milestoneRanges)
         IN  [yearPositions |-> MapSet(before.yearPositions, uniqueYears[i], acc),
              accumulatedPosition |-> acc]

marginStart == Rat(2, 100)
marginEnd == Rat(2, 100)
usableRange == RSub(RSub(Num(1), marginStart), marginEnd)

\* as Normalize, with the margin left out of the scale: marginStart + pos / total
NormalizeUnscaled(pos, totalAccumulated) ==
    RAdd(marginStart, RDiv(Num(pos), Num(totalAccumulated)))

\* normalized = marginStart + (pos / totalAccumulated) * usableRange
Normalize(pos, totalAccumulated) ==
    RAdd(marginStart, RMul(RDiv(Num(pos), Num(totalAccumulated)), usableRange))

NormalizedPositions(yearPositions, totalAccumulated) ==
    [i \in 1..Len(yearPositions) |->
        <<yearPositions[i][1], Normalize(yearPositions[i][2], totalAccumulated)>>]

\* as identityScrollToYear, with the span taken for maxYear - 0 instead of
\* maxYear - minYear
identityScrollToYearShort(scroll) == MathRound(RAdd(Num(-4000), RMul(scroll, Num(4000))))

\* the closures of the identity mapping returned when there is no event
identityScrollToYear(scroll) == MathRound(RAdd(Num(-4000), RMul(scroll, Num(4100))))
identityYearToScroll(year) == RDiv(Num(year + 4000), Num(4100))

\* the object returned when there is no event
IdentityMapping ==
    [mode |-> "identity", minYear |-> -4000, maxYear |-> 100, events |-> <<>>,
     uniqueYears |-> <<>>, yearPositions |-> <<>>,
     normalizedPositions |-> <<>>, sortedYears |-> <<>>]

\* yearMapping while it is still null
NoMapping ==
    [mode |-> "null", minYear |-> 0, maxYear |-> 0, events |-> <<>>, uniqueYears |-> <<>>,
     yearPositions |-> <<>>, normalizedPositions |-> <<>>, sortedYears |-> <<>>]

\* What buildYearMapping(bs, ms) returns.  mode tells which pair of closures
\* the object holds: "identity" (no events) or "table".  uniqueYears and
\* yearPositions are locals of the call, kept to state properties of them.
BuildYearMapping(bs, ms, cy) ==
    LET events == SortedEvents(bs, ms)
        bookRanges == BookRanges(bs, Len(bs))
        milestoneRanges == MilestoneRanges(ms)
    IN  IF Len(events) = 0
        THEN IdentityMapping
        ELSE LET uniqueYears == UniqueYears(events, cy)
                 loop == WeightLoop(uniqueYears, Len(uniqueYears), bookRanges, milestoneRanges)
                 normalizedPositions ==
                     NormalizedPositions(loop.yearPositions, loop.accumulatedPosition)
             IN  [mode |-> "table",
                  minYear |-> events[1].year,
                  maxYear |-> cy,
                  events |-> events,
                  uniqueYears |-> uniqueYears,
                  yearPositions |-> loop.yearPositions,
                  normalizedPositions |-> normalizedPositions,
                  sortedYears |-> Sort(normalizedPositions, "entry[1]")]

\* ------------------------------------------------------------ the queries
\* as Lerp, with a + t * b
LerpNoDifference(a, b, t) == RAdd(a, RMul(t, b))

\* the year1 + t * (year2 - year1) of both interpolations
Lerp(a, b, t) == RAdd(a, RMul(t, RSub(b, a)))

\* the first i with pos_i <= scrollPos <= pos_(i+1), 0 if the loop finds none
ScrollBracket(sortedYears, scrollPos) ==
    LET hits == {i \in 1..(Len(sortedYears) - 1) :
                    /\ RGeq(scrollPos, sortedYears[i][2])
                    /\ RLeq(scrollPos, sortedYears[i + 1][2])}
    IN  IF hits = {} THEN 0 ELSE CHOOSE i \in hits : \A j \in hits : i <= j

\* as scrollToYear, interpolating from the bracket's later year to its earlier
scrollToYearBackwards(m, scroll) ==
    IF m.mode = "identity"
    THEN identityScrollToYear(scroll)
    ELSE LET scrollPos == MathMax(Num(0), MathMin(Num(1), scroll))
             sortedYears == m.sortedYears
             n == Len(sortedYears)
             i == ScrollBracket(sortedYears, scrollPos)
         IN  IF RLeq(scrollPos, sortedYears[1][2]) THEN sortedYears[1][1]
             ELSE IF RGeq(scrollPos, sortedYears[n][2]) THEN sortedYears[n][1]
             ELSE IF i # 0
             THEN LET t == RDiv(RSub(scrollPos, sortedYears[i][2]),
                                RSub(sortedYears[i + 1][2], sortedYears[i][2]))
                  IN  MathRound(Lerp(Num(sortedYears[i + 1][1]), Num(sortedYears[i][1]), t))
             ELSE sortedYears[n][1]

scrollToYear(m, scroll) ==
    IF m.mode = "identity"
    THEN identityScrollToYear(scroll)
    ELSE LET scrollPos == MathMax(Num(0), MathMin(Num(1), scroll))
             sortedYears == m.sortedYears
             n == Len(sortedYears)
             i == ScrollBracket(sortedYears, scrollPos)
         IN  IF RLeq(scrollPos, sortedYears[1][2]) THEN sortedYears[1][1]
             ELSE IF RGeq(scrollPos, sortedYears[n][2]) THEN sortedYears[n][1]
             ELSE IF i # 0
             THEN LET t == RDiv(RSub(scrollPos, sortedYears[i][2]),
                                RSub(sortedYears[i + 1][2], sortedYears[i][2]))
                  IN  MathRound(Lerp(Num(sortedYears[i][1]), Num(sortedYears[i + 1][1]), t))
             ELSE sortedYears[n][1]

\* the first i with year_i <= year <= year_(i+1), 0 if the loop finds none
YearBracket(sortedByYear, year) ==
    LET hits == {i \in 1..(Len(sortedByYear) - 1) :
                    year >= sortedByYear[i][1] /\ year <= sortedByYear[i + 1][1]}
    IN  IF hits = {} THEN 0 ELSE CHOOSE i \in hits : \A j \in hits : i <= j

yearToScroll(m, year) ==
    IF m.mode = "identity"
    THEN identityYearToScroll(year)
    ELSE IF MapHas(m.normalizedPositions, year) THEN MapGet(m.normalizedPositions, year)
    ELSE LET sortedByYear == Sort(m.normalizedPositions, "entry[0]")
             n == Len(sortedByYear)
             i == YearBracket(sortedByYear, year)
         IN  IF year <= sortedByYear[1][1] THEN sortedByYear[1][2]
             ELSE IF year >= sortedByYear[n][1] THEN sortedByYear[n][2]
             ELSE IF i # 0
             THEN LET t == Rat(year - sortedByYear[i][1],
                               sortedByYear[i + 1][1] - sortedByYear[i][1])
                  IN  Lerp(sortedByYear[i][2], sortedByYear[i + 1][2], t)
             ELSE sortedByYear[n][2]

\* ------------------------------------------------------------ the machine
NoCall == [fn |-> "none", arg |-> Null, ret |-> Null, of |-> Null]
\* the resize listener before any resize event:
\*   timers        the ms left of each pending timer of debounce, oldest first;
\*                 the closure's timeout is the newest timer made
\*   since         ms since the most recent resize event (up to the delay),
\*                 Null before the first
\*   runs          the listener's handleScroll runs since that event
\*   invokedAfter  `since` when the last of these runs began
NoResize == [timers |-> <<>>, since |-> Null, runs |-> 0, invokedAfter |-> Null]
\* the page before handleScroll has run
NoView == [at |-> Null, zone |-> "none", header |-> FALSE, year |-> Null,
           highlighted |-> FALSE, shown |-> Null, columns |-> FALSE]

Init ==
    /\ books \in SeqsUpTo(BookInputs, MaxIntervals)
    /\ milestones \in SeqsUpTo(MilestoneInputs, MaxIntervals - Len(books))
    /\ CURRENT_YEAR \in CurrentYears
    /\ yearMapping = NoMapping
    /\ call = NoCall
    /\ scrollY = 0
    /\ ticking = FALSE
    /\ pending = 0
    /\ view = NoView
    /\ frameRuns = 0
    /\ sinceRun = 0
    /\ served = 0
    /\ resize = NoResize
    /\ messages = <<>>
    /\ bookManager = Null
    /\ messageManager = Null
    /\ milestoneCardManager = Null
    /\ renderer = Null

\* main.js init(): yearMapping = buildYearMapping(booksData.books, milestones)
Build ==
    /\ yearMapping.mode = "null"
    /\ yearMapping' = BuildYearMapping(books, milestones, CURRENT_YEAR)
    /\ UNCHANGED <<books, milestones, CURRENT_YEAR, call>>
    /\ UNCHANGED pageVars

\* yearMapping.scrollToYear(p), p a position of ScrollInputs
ScrollToYear ==
    /\ yearMapping.mode # "null"
    /\ \E p \in ScrollInputs :
          call' = [fn |-> "scrollToYear", arg |-> p, ret |-> scrollToYear(yearMapping, p),
                   of |-> Null]
    /\ UNCHANGED <<books, milestones, CURRENT_YEAR, yearMapping>>
    /\ UNCHANGED pageVars

\* as YearToScroll, with the position found kept in the table
\* (normalizedPositions.set(year, position))
YearToScrollMemoizes ==
    /\ yearMapping.mode = "table"
    /\ \E y \in YearQueries :
          /\ call' = [fn |-> "yearToScroll", arg |-> y, ret |-> yearToScroll(yearMapping, y),
                      of |-> Null]
          /\ yearMapping' = [yearMapping EXCEPT !.normalizedPositions =
                                MapSet(@, y, yearToScroll(yearMapping, y))]
    /\ UNCHANGED <<books, milestones, CURRENT_YEAR>>
    /\ UNCHANGED pageVars

\* yearMapping.yearToScroll(y)
YearToScroll ==
    /\ yearMapping.mode # "null"
    /\ \E y \in YearQueries :
          call' = [fn |-> "yearToScroll", arg |-> y, ret |-> yearToScroll(yearMapping, y),
                   of |-> Null]
    /\ UNCHANGED <<books, milestones, CURRENT_YEAR, yearMapping>>
    /\ UNCHANGED pageVars

\* yearMapping.scrollToYear(yearMapping.yearToScroll(y)): the position just
\* returned for year y is fed back
RoundTrip ==
    /\ call.fn = "yearToScroll"
    /\ call' = [fn |-> "scrollToYear", arg |-> call.ret,
                ret |-> scrollToYear(yearMapping, call.ret), of |-> Some(call.arg)]
    /\ UNCHANGED <<books, milestones, CURRENT_YEAR, yearMapping>>
    /\ UNCHANGED pageVars

Next == Build \/ ScrollToYear \/ YearToScroll \/ RoundTrip

Spec == Init /\ [][Next]_vars

\* ------------------------------------------------------- the BookManager
\* A BookManager is the record of its fields: booksByDate, visibleBooks (a Map
\* bookId -> cell; the card element and the book are left out), occupiedCells
\* (a Map cell -> bookId) and currentYear.  A book's id is its index in books.

\* bookRanges of preprocessBooks: the first n books, mapped and filtered
RECURSIVE BookManager_bookRanges(_, _)
BookManager_bookRanges(bs, n) ==
    IF n = 0 THEN <<>>
    ELSE LET date == GetDisplayDate(bs[n])
         IN  IF date.start # Null
             THEN Append(BookManager_bookRanges(bs, n - 1),
                         [id |-> n, start |-> date.start[1], end |-> date.end[1],
                          isWritingDate |-> date.isWritingDate])
             ELSE BookManager_bookRanges(bs, n - 1)

\* the entry preprocessBooks makes of one bookRanges element
BookManager_processed(entry, bookRanges) ==
    LET overlapCount ==
            Cardinality({j \in 1..Len(bookRanges) :
                            /\ bookRanges[j].id # entry.id
                            /\ bookRanges[j].start <= entry.end
                            /\ bookRanges[j].end >= entry.start})
        overlapFactor == MathMin(Num(1), Rat(overlapCount, 8))
        leadYears ==
            MathRound(RSub(Num(LEAD_YEARS_MAX),
                           RMul(overlapFactor, Num(LEAD_YEARS_MAX - LEAD_YEARS_MIN))))
        scrollRange ==
            MathRound(RSub(Num(SCROLL_RANGE_MAX),
                           RMul(overlapFactor, Num(SCROLL_RANGE_MAX - SCROLL_RANGE_MIN))))
    IN  [id |-> entry.id, start |-> entry.start, end |-> entry.end,
         isWritingDate |-> entry.isWritingDate,
         leadYears |-> leadYears, scrollRange |-> scrollRange,
         entryStart |-> entry.start - leadYears, exitEnd |-> entry.end + leadYears]

preprocessBooks(bs) ==
    LET bookRanges == BookManager_bookRanges(bs, Len(bs))
    IN  Sort([i \in 1..Len(bookRanges) |-> BookManager_processed(bookRanges[i], bookRanges)],
             "a.start")

\* new BookManager(books, container); styles is, for each book of
\* visibleBooks, what updateBookPosition has put on its element: translateY
\* (percent), opacity and dataset.phase
BookManager_new(bs) ==
    [booksByDate |-> preprocessBooks(bs), visibleBooks |-> <<>>, occupiedCells |-> <<>>,
     styles |-> <<>>, currentYear |-> Null]

\* as findAvailableCell, scanning the cells from the last to the first
findAvailableCellLast(bm) ==
    LET free == {i \in 0..(TOTAL_CELLS - 1) : ~MapHas(bm.occupiedCells, i)}
    IN  IF free = {} THEN Null ELSE Some(CHOOSE i \in free : \A j \in free : i >= j)

\* the first cell of 0..TOTAL_CELLS-1 not in occupiedCells, null if there is none
findAvailableCell(bm) ==
    LET free == {i \in 0..(TOTAL_CELLS - 1) : ~MapHas(bm.occupiedCells, i)}
    IN  IF free = {} THEN Null ELSE Some(CHOOSE i \in free : \A j \in free : i <= j)

addBook(bm, id) ==
    LET cell == findAvailableCell(bm)
    IN  IF cell = Null THEN bm
        ELSE [bm EXCEPT !.occupiedCells = MapSet(@, cell[1], id),
                        !.visibleBooks = MapSet(@, id, cell[1])]

\* as removeBook, without occupiedCells.delete(cell)
removeBookKeepsCell(bm, bookId) ==
    IF ~MapHas(bm.visibleBooks, bookId) THEN bm
    ELSE [bm EXCEPT !.visibleBooks = MapDelete(@, bookId),
                    !.styles = MapDelete(@, bookId)]

removeBook(bm, bookId) ==
    IF ~MapHas(bm.visibleBooks, bookId) THEN bm
    ELSE [bm EXCEPT !.occupiedCells = MapDelete(@, MapGet(bm.visibleBooks, bookId)),
                    !.visibleBooks = MapDelete(@, bookId),
                    !.styles = MapDelete(@, bookId)]

\* as calculatePosition, a book leaving towards the bottom
calculatePositionExitsBelow(year, entry) ==
    IF year < entry.start
    THEN LET progress == Rat(year - (entry.start - entry.leadYears), entry.leadYears)
         IN  [translateY |-> RMul(RSub(Num(1), progress), Num(entry.scrollRange)),
              opacity |-> MathMin(Num(1), RMul(progress, Rat(3, 2))),
              phase |-> "entering"]
    ELSE IF year >= entry.start /\ year <= entry.end
    THEN [translateY |-> Num(0), opacity |-> Num(1), phase |-> "visible"]
    ELSE IF year > entry.end
    THEN LET progress == Rat(year - entry.end, entry.leadYears)
         IN  [translateY |-> RMul(progress, Num(entry.scrollRange)),
              opacity |-> MathMax(Num(0), RSub(Num(1), RMul(progress, Rat(3, 2)))),
              phase |-> "exiting"]
    ELSE [translateY |-> Num(0), opacity |-> Num(1), phase |-> "visible"]

\* calculatePosition(year, entry); 1.5 as 3/2
calculatePosition(year, entry) ==
    IF year < entry.start
    THEN LET progress == Rat(year - (entry.start - entry.leadYears), entry.leadYears)
         IN  [translateY |-> RMul(RSub(Num(1), progress), Num(entry.scrollRange)),
              opacity |-> MathMin(Num(1), RMul(progress, Rat(3, 2))),
              phase |-> "entering"]
    ELSE IF year >= entry.start /\ year <= entry.end
    THEN [translateY |-> Num(0), opacity |-> Num(1), phase |-> "visible"]
    ELSE IF year > entry.end
    THEN LET progress == Rat(year - entry.end, entry.leadYears)
         IN  [translateY |-> RMul(RSub(Num(0), progress), Num(entry.scrollRange)),
              opacity |-> MathMax(Num(0), RSub(Num(1), RMul(progress, Rat(3, 2)))),
              phase |-> "exiting"]
    ELSE [translateY |-> Num(0), opacity |-> Num(1), phase |-> "visible"]

\* updateBookPosition(bookId, position)
updateBookPosition(bm, bookId, position) ==
    IF ~MapHas(bm.visibleBooks, bookId) THEN bm
    ELSE [bm EXCEPT !.styles = MapSet(@, bookId, position)]

\* for (const bookId of ids) this.removeBook(bookId), the first n of ids
RECURSIVE BookManager_removeAll(_, _, _)
BookManager_removeAll(bm, ids, n) ==
    IF n = 0 THEN bm ELSE removeBook(BookManager_removeAll(bm, ids, n - 1), ids[n])

\* the second loop of updateForYear over the first n entries of booksByDate,
\* bm.currentYear being the year
RECURSIVE BookManager_addAll(_, _, _)
BookManager_addAll(bm, shouldBeVisible, n) ==
    IF n = 0 THEN bm
    ELSE LET before == BookManager_addAll(bm, shouldBeVisible, n - 1)
             id == bm.booksByDate[n].id
             added == IF id \in shouldBeVisible /\ ~MapHas(before.visibleBooks, id)
                      THEN addBook(before, id)
                      ELSE before
         IN  IF id \in shouldBeVisible /\ MapHas(added.visibleBooks, id)
             THEN updateBookPosition(added, id,
                                     calculatePosition(bm.currentYear[1], bm.booksByDate[n]))
             ELSE added

\* the keys of a Map that satisfy keep, in the Map's order
RECURSIVE KeysNotIn(_, _, _)
KeysNotIn(m, S, n) ==
    IF n = 0 THEN <<>>
    ELSE IF m[n][1] \in S THEN KeysNotIn(m, S, n - 1)
         ELSE Append(KeysNotIn(m, S, n - 1), m[n][1])

\* as BookManager_updateForYear, without the removal of the books out of range
BookManager_updateForYearKeeps(bm, year) ==
    LET shouldBeVisible ==
            {bm.booksByDate[i].id : i \in {j \in 1..Len(bm.booksByDate) :
                /\ year >= bm.booksByDate[j].entryStart
                /\ year <= bm.booksByDate[j].exitEnd}}
    IN  BookManager_addAll([bm EXCEPT !.currentYear = Some(year)], shouldBeVisible,
                           Len(bm.booksByDate))

\* BookManager.updateForYear(year)
BookManager_updateForYear(bm, year) ==
    LET shouldBeVisible ==
            {bm.booksByDate[i].id : i \in {j \in 1..Len(bm.booksByDate) :
                /\ year >= bm.booksByDate[j].entryStart
                /\ year <= bm.booksByDate[j].exitEnd}}
        toRemove == KeysNotIn(bm.visibleBooks, shouldBeVisible, Len(bm.visibleBooks))
        removed == BookManager_removeAll([bm EXCEPT !.currentYear = Some(year)],
                                         toRemove, Len(toRemove))
    IN  BookManager_addAll(removed, shouldBeVisible, Len(bm.booksByDate))

\* BookManager.clear()
BookManager_clear(bm) ==
    LET ids == KeysNotIn(bm.visibleBooks, {}, Len(bm.visibleBooks))
        removed == BookManager_removeAll(bm, ids, Len(ids))
    IN  [removed EXCEPT !.occupiedCells = <<>>, !.currentYear = Null]

\* The shelves the BookManager is tried on: crowded ones of ShelfSize - 1 and of
\* ShelfSize books that all overlap at year 0 (they start at -1 or 0 and end at
\* 0, 10, 20 or 30), and a quiet one with an undated book and a book dated by
\* its writing.
ShelfBook(s, e) ==
    [dateEventsStart |-> Some(s), dateEventsEnd |-> Some(e),
     dateWrittenStart |-> Null, dateWrittenEnd |-> Null]
CrowdedShelf(k) == [n \in 1..k |-> ShelfBook(-(n % 2), 10 * (n % 4))]
QuietShelf ==
    << ShelfBook(30, 40),
       [dateEventsStart |-> Null, dateEventsEnd |-> Null,
        dateWrittenStart |-> Null, dateWrittenEnd |-> Null],
       [dateEventsStart |-> Null, dateEventsEnd |-> Null,
        dateWrittenStart |-> Some(0), dateWrittenEnd |-> Some(1)],
       ShelfBook(-100, -50) >>
BookShelves == {CrowdedShelf(ShelfSize - 1), CrowdedShelf(ShelfSize), QuietShelf}
ShelfYears == {-100, -25, -2, -1, 0, 2, 5, 12, 21, 22, 32, 35, 60}

\* the page while only the BookManager is exercised
InitBooks ==
    /\ books \in BookShelves
    /\ milestones = <<>>
    /\ CURRENT_YEAR = 100
    /\ yearMapping = NoMapping
    /\ call = NoCall
    /\ scrollY = 0
    /\ ticking = FALSE
    /\ pending = 0
    /\ view = NoView
    /\ frameRuns = 0
    /\ sinceRun = 0
    /\ served = 0
    /\ resize = NoResize
    /\ messages = <<>>
    /\ bookManager = BookManager_new(books)
    /\ messageManager = Null
    /\ milestoneCardManager = Null
    /\ renderer = Null

\* bookManager.updateForYear(year)
BookUpdateForYear ==
    /\ \E year \in ShelfYears : bookManager' = BookManager_updateForYear(bookManager, year)
    /\ UNCHANGED <<mappingVars, call, scrollVars>>
    /\ UNCHANGED <<messages, messageManager, milestoneCardManager, renderer>>

\* bookManager.clear()
BookClear ==
    /\ bookManager' = BookManager_clear(bookManager)
    /\ UNCHANGED <<mappingVars, call, scrollVars>>
    /\ UNCHANGED <<messages, messageManager, milestoneCardManager, renderer>>

NextBooks == BookUpdateForYear \/ BookClear

SpecBooks == InitBooks /\ [][NextBooks]_vars

\* ---------------------------------------------------- the MessageManager
\* A MessageManager is the record of its fields: container (whether
\* #message-container exists), messagesByRange, visibleMessages (a Map
\* messageId -> {visible: true}) and currentYear, together with the message-box
\* elements it has made, in order of creation:
\*   id           dataset.messageId
\*   inDom        the element is a child of the container
\*   shown        visibleMessages holds the element
\*   classVisible the element has class 'visible'
\*   raf          the requestAnimationFrame callback of showMessage is pending
\*   listener     the once-listener for 'transitionend' is registered
\*   opacity      the style property --message-opacity, Null while unset
\*   timer        0, or the place of the element's 500 ms timer among the
\*                pending ones (1 fires first)
\* An element out of the container with no callback pending is dropped.
\* A message's id is its index in messages.

\* this.messages.map(...).sort((a, b) => a.yearStart - b.yearStart)
preprocessMessages(msgs) ==
    Sort([i \in 1..Len(msgs) |->
            [id |-> i, yearStart |-> msgs[i].yearStart, yearEnd |-> msgs[i].yearEnd]],
         "a.yearStart")

\* new MessageManager(messages)
MessageManager_new(msgs, container) ==
    [container |-> container, messagesByRange |-> preprocessMessages(msgs),
     visibleMessages |-> <<>>, elements |-> <<>>, currentYear |-> Null]

\* the timers pending on the elements
PendingTimers(elements) == Cardinality({i \in 1..Len(elements) : elements[i].timer > 0})

showMessage(mm, id) ==
    IF ~mm.container THEN mm
    ELSE [mm EXCEPT !.elements = Append(@, [id |-> id, inDom |-> TRUE, shown |-> TRUE,
                                             classVisible |-> FALSE, raf |-> TRUE,
                                             opacity |-> Null,
                                             listener |-> FALSE, timer |-> 0]),
                    !.visibleMessages = MapSet(@, id, [visible |-> TRUE])]

\* as hideMessage, without visibleMessages.delete(messageId)
hideMessageKeepsEntry(mm, messageId) ==
    IF ~MapHas(mm.visibleMessages, messageId) THEN mm
    ELSE [mm EXCEPT !.elements =
                [i \in 1..Len(@) |->
                    IF @[i].id = messageId /\ @[i].shown /\ @[i].timer = 0
                    THEN [@[i] EXCEPT !.classVisible = FALSE, !.listener = TRUE,
                                      !.timer = PendingTimers(mm.elements) + 1]
                    ELSE @[i]]]

hideMessage(mm, messageId) ==
    IF ~MapHas(mm.visibleMessages, messageId) THEN mm
    ELSE [mm EXCEPT !.elements =
                [i \in 1..Len(@) |->
                    IF @[i].id = messageId /\ @[i].shown
                    THEN [@[i] EXCEPT !.classVisible = FALSE, !.listener = TRUE,
                                      !.timer = PendingTimers(mm.elements) + 1,
                                      !.shown = FALSE]
                    ELSE @[i]],
                    !.visibleMessages = MapDelete(@, messageId)]

\* MessageManager.updateMessageOpacity(message, year); 0.1 and 0.9 as 1/10, 9/10
updateMessageOpacity(mm, message, year) ==
    IF ~MapHas(mm.visibleMessages, message.id) THEN mm
    ELSE LET range == message.yearEnd - message.yearStart
             position == year - message.yearStart
             progress == Rat(position, range)
             opacity == IF RLt(progress, Rat(1, 10)) THEN RDiv(progress, Rat(1, 10))
                        ELSE IF RLt(Rat(9, 10), progress)
                        THEN RDiv(RSub(Num(1), progress), Rat(1, 10))
                        ELSE Num(1)
         IN  [mm EXCEPT !.elements =
                 [i \in 1..Len(@) |->
                     IF @[i].id = message.id /\ @[i].shown
                     THEN [@[i] EXCEPT !.opacity = Some(opacity)]
                     ELSE @[i]]]

\* the loop of updateForYear over the first n entries of messagesByRange
RECURSIVE MessageManager_each(_, _, _)
MessageManager_each(mm, year, n) ==
    IF n = 0 THEN mm
    ELSE LET before == MessageManager_each(mm, year, n - 1)
             message == mm.messagesByRange[n]
             shouldBeVisible == year >= message.yearStart /\ year <= message.yearEnd
             isCurrentlyVisible == MapHas(before.visibleMessages, message.id)
         IN  IF shouldBeVisible /\ ~isCurrentlyVisible THEN showMessage(before, message.id)
             ELSE IF ~shouldBeVisible /\ isCurrentlyVisible THEN hideMessage(before, message.id)
             ELSE IF shouldBeVisible /\ isCurrentlyVisible
             THEN updateMessageOpacity(before, message, year)
             ELSE before

\* MessageManager.updateForYear(year)
MessageManager_updateForYear(mm, year) ==
    MessageManager_each([mm EXCEPT !.currentYear = Some(year)], year, Len(mm.messagesByRange))

\* for (const [messageId] of this.visibleMessages) this.hideMessage(messageId)
RECURSIVE MessageManager_hideAll(_, _, _)
MessageManager_hideAll(mm, ids, n) ==
    IF n = 0 THEN mm ELSE hideMessage(MessageManager_hideAll(mm, ids, n - 1), ids[n])

\* MessageManager.clear()
MessageManager_clear(mm) ==
    LET ids == KeysNotIn(mm.visibleMessages, {}, Len(mm.visibleMessages))
    IN  [MessageManager_hideAll(mm, ids, Len(ids)) EXCEPT !.currentYear = Null]

\* the elements still in the container or awaited by a callback
RECURSIVE LiveElements(_, _)
LiveElements(elements, n) ==
    IF n = 0 THEN <<>>
    ELSE IF elements[n].inDom \/ elements[n].raf \/ elements[n].timer > 0
         THEN Append(LiveElements(elements, n - 1), elements[n])
         ELSE LiveElements(elements, n - 1)

\* the messages tried: ranges that overlap, and one of a single year
MessageInputs ==
    {[yearStart |-> 0, yearEnd |-> 10], [yearStart |-> 5, yearEnd |-> 20],
     [yearStart |-> 30, yearEnd |-> 30]}
MessageYears == {-5, 0, 7, 15, 30}

\* the page while only the MessageManager is exercised
InitMessages ==
    /\ books = <<>>
    /\ milestones = <<>>
    /\ CURRENT_YEAR = 100
    /\ yearMapping = NoMapping
    /\ call = NoCall
    /\ scrollY = 0
    /\ ticking = FALSE
    /\ pending = 0
    /\ view = NoView
    /\ frameRuns = 0
    /\ sinceRun = 0
    /\ served = 0
    /\ resize = NoResize
    /\ messages \in SeqsUpTo(MessageInputs, MaxMessages)
    /\ bookManager = Null
    /\ \E container \in BOOLEAN : messageManager = MessageManager_new(messages, container)
    /\ milestoneCardManager = Null
    /\ renderer = Null

\* messageManager.updateForYear(year)
MsgUpdateForYear ==
    /\ \E year \in MessageYears :
          LET after == MessageManager_updateForYear(messageManager, year)
          IN  /\ Len(after.elements) <= MaxElements
              /\ messageManager' = after
    /\ UNCHANGED <<mappingVars, call, scrollVars>>
    /\ UNCHANGED <<messages, bookManager, milestoneCardManager, renderer>>

\* messageManager.clear()
MsgClear ==
    /\ messageManager' = MessageManager_clear(messageManager)
    /\ UNCHANGED <<mappingVars, call, scrollVars>>
    /\ UNCHANGED <<messages, bookManager, milestoneCardManager, renderer>>

\* an animation frame: the pending callbacks of showMessage run,
\* each element.classList.add('visible')
MsgAnimationFrame ==
    /\ \E i \in 1..Len(messageManager.elements) : messageManager.elements[i].raf
    /\ messageManager' =
          [messageManager EXCEPT !.elements =
              LiveElements([i \in 1..Len(@) |->
                               IF @[i].raf
                               THEN [@[i] EXCEPT !.raf = FALSE, !.classVisible = TRUE]
                               ELSE @[i]], Len(@))]
    /\ UNCHANGED <<mappingVars, call, scrollVars>>
    /\ UNCHANGED <<messages, bookManager, milestoneCardManager, renderer>>

\* 'transitionend' on an element of the container that hideMessage has
\* given its listener: element.remove()
MsgTransitionEnd ==
    /\ \E e \in 1..Len(messageManager.elements) :
          /\ messageManager.elements[e].listener
          /\ messageManager.elements[e].inDom
          /\ messageManager' =
                [messageManager EXCEPT !.elements =
                    LiveElements([@ EXCEPT ![e].listener = FALSE, ![e].inDom = FALSE], Len(@))]
    /\ UNCHANGED <<mappingVars, call, scrollVars>>
    /\ UNCHANGED <<messages, bookManager, milestoneCardManager, renderer>>

\* the oldest pending 500 ms timer fires: if (element.parentNode) element.remove()
MsgTimeout ==
    /\ \E e \in 1..Len(messageManager.elements) :
          /\ messageManager.elements[e].timer = 1
          /\ messageManager' =
                [messageManager EXCEPT !.elements =
                    LiveElements([i \in 1..Len(@) |->
                                     IF i = e THEN [@[i] EXCEPT !.timer = 0, !.inDom = FALSE]
                                     ELSE IF @[i].timer > 0
                                     THEN [@[i] EXCEPT !.timer = @ - 1]
                                     ELSE @[i]], Len(@))]
    /\ UNCHANGED <<mappingVars, call, scrollVars>>
    /\ UNCHANGED <<messages, bookManager, milestoneCardManager, renderer>>

NextMessages ==
    MsgUpdateForYear \/ MsgClear \/ MsgAnimationFrame \/ MsgTransitionEnd \/ MsgTimeout

SpecMessages == InitMessages /\ [][NextMessages]_vars

\* ---------------------------------------------- the MilestoneCardManager
\* MILESTONES of data-loader.js: year, display range, isLargeMilestone
MILESTONES ==
    <<[year |-> 100, displayStart |-> 96, displayEnd |-> 382, isLargeMilestone |-> TRUE],
      [year |-> 382, displayStart |-> 370, displayEnd |-> 393, isLargeMilestone |-> FALSE],
      [year |-> 393, displayStart |-> 388, displayEnd |-> 397, isLargeMilestone |-> FALSE],
      [year |-> 397, displayStart |-> 393, displayEnd |-> 405, isLargeMilestone |-> FALSE],
      [year |-> 405, displayStart |-> 400, displayEnd |-> 500, isLargeMilestone |-> FALSE],
      [year |-> 1546, displayStart |-> 1500, displayEnd |-> 1650, isLargeMilestone |-> FALSE]>>

\* A MilestoneCardManager is the record of its fields: milestones,
\* visibleMilestones (a Map milestoneId -> the card: its milestone, its index
\* and the element's style) and currentYear. A milestone's id is its index in
\* milestones. A card's element is in the container exactly while the Map
\* holds the card.
MilestoneCardManager_new(ms) ==
    [milestones |-> ms, visibleMilestones |-> <<>>, currentYear |-> Null]

\* addMilestoneCard(milestone, index)
addMilestoneCard(mcm, i) ==
    [mcm EXCEPT !.visibleMilestones =
        MapSet(@, i, [milestone |-> [id |-> i, year |-> mcm.milestones[i].year],
                      index |-> i - 1, translateY |-> Null, scale |-> Null,
                      opacity |-> Null, zIndex |-> Null])]

\* removeMilestoneCard(milestoneId)
removeMilestoneCard(mcm, milestoneId) ==
    IF ~MapHas(mcm.visibleMilestones, milestoneId) THEN mcm
    ELSE [mcm EXCEPT !.visibleMilestones = MapDelete(@, milestoneId)]

\* the style updateAllPositions gives the card at place index of the
\* totalVisible cards sorted by year; 0.05, 0.85 and 1.5 as 1/20, 17/20, 3/2
CardStyle(data, index, totalVisible, year) ==
    LET entryStart == data.milestone.year - LEAD_YEARS
        stackIndex == totalVisible - 1 - index
        entryProgress == IF year < data.milestone.year
                         THEN MathMax(Num(0), Rat(year - entryStart, LEAD_YEARS))
                         ELSE Num(1)
        stackOffset == stackIndex * CARD_HEIGHT
        entryOffset == RMul(RSub(Num(1), entryProgress), Num(CARD_HEIGHT))
        totalOffset == RAdd(Num(-stackOffset), entryOffset)
        opacity == MathMin(Num(1), RMul(entryProgress, Rat(3, 2)))
        scale == RSub(Num(1), Rat(stackIndex, 20))
    IN  [data EXCEPT !.translateY = Some(totalOffset),
                     !.scale = Some(MathMax(Rat(17, 20), scale)),
                     !.opacity = Some(opacity),
                     !.zIndex = Some(totalVisible - stackIndex)]

\* updateAllPositions(year)
updateAllPositions(mcm, year) ==
    LET vm == mcm.visibleMilestones
        visibleList == Sort([i \in 1..Len(vm) |-> vm[i][2]], "a.milestone.year")
        totalVisible == Len(visibleList)
        place(id) == CHOOSE k \in 1..totalVisible : visibleList[k].milestone.id = id
    IN  [mcm EXCEPT !.visibleMilestones =
            [i \in 1..Len(vm) |->
                <<vm[i][1], CardStyle(vm[i][2], place(vm[i][1]) - 1, totalVisible, year)>>]]

\* as MilestoneCardManager_each, a card entering at milestone.year itself
RECURSIVE MilestoneCardManager_eachNoLead(_, _, _)
MilestoneCardManager_eachNoLead(mcm, year, n) ==
    IF n = 0 THEN mcm
    ELSE LET before == MilestoneCardManager_eachNoLead(mcm, year, n - 1)
             shouldBeVisible == year >= mcm.milestones[n].year
             isCurrentlyVisible == MapHas(before.visibleMilestones, n)
         IN  IF shouldBeVisible /\ ~isCurrentlyVisible THEN addMilestoneCard(before, n)
             ELSE IF ~shouldBeVisible /\ isCurrentlyVisible THEN removeMilestoneCard(before, n)
             ELSE before

\* the loop of updateForYear over the first n milestones
RECURSIVE MilestoneCardManager_each(_, _, _)
MilestoneCardManager_each(mcm, year, n) ==
    IF n = 0 THEN mcm
    ELSE LET before == MilestoneCardManager_each(mcm, year, n - 1)
             entryStart == mcm.milestones[n].year - LEAD_YEARS
             shouldBeVisible == year >= entryStart
             isCurrentlyVisible == MapHas(before.visibleMilestones, n)
         IN  IF shouldBeVisible /\ ~isCurrentlyVisible THEN addMilestoneCard(before, n)
             ELSE IF ~shouldBeVisible /\ isCurrentlyVisible THEN removeMilestoneCard(before, n)
             ELSE before

\* MilestoneCardManager.updateForYear(year)
MilestoneCardManager_updateForYear(mcm, year) ==
    updateAllPositions(
        MilestoneCardManager_each([mcm EXCEPT !.currentYear = Some(year)], year,
                                  Len(mcm.milestones)),
        year)

\* for (const [milestoneId] of this.visibleMilestones) this.removeMilestoneCard(milestoneId)
RECURSIVE MilestoneCardManager_removeAll(_, _, _)
MilestoneCardManager_removeAll(mcm, ids, n) ==
    IF n = 0 THEN mcm
    ELSE removeMilestoneCard(MilestoneCardManager_removeAll(mcm, ids, n - 1), ids[n])

\* MilestoneCardManager.clear()
MilestoneCardManager_clear(mcm) ==
    LET ids == KeysNotIn(mcm.visibleMilestones, {}, Len(mcm.visibleMilestones))
    IN  [MilestoneCardManager_removeAll(mcm, ids, Len(ids)) EXCEPT !.currentYear = Null]

\* -------------------------------------------------- the TimelineRenderer
\* ERAS of data-loader.js in the order of Object.values: id, start, end
ERAS(cy) ==
    <<[id |-> "primeval", start |-> Some(-4000), end |-> Some(-2100)],
      [id |-> "patriarchs", start |-> Some(-2100), end |-> Some(-1450)],
      [id |-> "exodus", start |-> Some(-1450), end |-> Some(-1380)],
      [id |-> "judges", start |-> Some(-1380), end |-> Some(-1050)],
      [id |-> "united-kingdom", start |-> Some(-1050), end |-> Some(-930)],
      [id |-> "divided-kingdom", start |-> Some(-930), end |-> Some(-586)],
      [id |-> "exile", start |-> Some(-586), end |-> Some(-538)],
      [id |-> "post-exile", start |-> Some(-538), end |-> Some(-400)],
      [id |-> "intertestamental", start |-> Some(-400), end |-> Some(-5)],
      [id |-> "gospels", start |-> Some(-5), end |-> Some(33)],
      [id |-> "apostolic", start |-> Some(33), end |-> Some(100)],
      [id |-> "church-age", start |-> Some(100), end |-> Some(cy + 1)],
      [id |-> "wisdom", start |-> Null, end |-> Null]>>

\* getEraForYear(year) for a year that is not null: the id of the era
getEraForYear(year, cy) ==
    LET eras == ERAS(cy)
        Holds(i) == /\ eras[i].start # Null
                    /\ year >= eras[i].start[1]
                    /\ year < eras[i].end[1]
    IN  IF \E i \in 1..Len(eras) : Holds(i)
        THEN LET first == CHOOSE i \in 1..Len(eras) :
                              Holds(i) /\ \A j \in 1..(i - 1) : ~Holds(j)
             IN  eras[first].id
        ELSE IF year < -2100 THEN "primeval"
        ELSE IF year >= 100 THEN "church-age"
        ELSE IF year >= 33 THEN "apostolic"
        ELSE "wisdom"

\* formatYearParts(year) for a year that is not null; number is the number
\* whose decimal digits are shown
formatYearParts(year) ==
    IF year < 0 THEN [number |-> Abs(year), suffix |-> "BC"]
    ELSE IF year = 0 THEN [number |-> 1, suffix |-> "BC"]
    ELSE [number |-> year, suffix |-> "AD"]

\* A TimelineRenderer is the record of its fields and of what it has put on
\* its elements:
\*   dom               which of the elements it looks up exist
\*   minYear, maxYear  the range of the dot
\*   currentYear, currentEra (an era id), isHighlighted, youAreHereVisible
\*   yearNumber, yearSuffix, eraText   the text contents, Null while unset
\*   dotTop            style.top of the dot in percent, Null while unset
\*   ticks             { year, top, visible }, visible also the class 'visible'
\*   eraDividers       { era, year, top, visible } with the classes
\*                     tickVisible, labelVisible of the element
\*   milestones        { year, visible } with the classes tickVisible,
\*                     labelVisible of the element
\*   youAreHereClass   the marker has class 'visible'
\*   canonizationLevel, tickContainer (whether it exists), canonClasses (the
\*                     N with class canon-level-N), canonPulse (class
\*                     'canon-pulse'), pulseTimers (600 ms timers pending)
\*   isHighlighted     also the class 'year-highlighted' of the body
Dom(b) ==
    [yearNumber |-> b, yearSuffix |-> b, eraText |-> b, timelineDot |-> b,
     timelineTrack |-> b, youAreHereMarker |-> b, eraContainer |-> b]

TimelineRenderer_new(dom, cy) ==
    [dom |-> dom, minYear |-> -4000, maxYear |-> cy,
     currentYear |-> Null, currentEra |-> Null,
     isHighlighted |-> FALSE, youAreHereVisible |-> FALSE, youAreHereClass |-> FALSE,
     yearNumber |-> Null, yearSuffix |-> Null, eraText |-> Null, dotTop |-> Null,
     ticks |-> <<>>, eraDividers |-> <<>>, milestones |-> <<>>,
     canonizationLevel |-> 0, tickContainer |-> FALSE, canonClasses |-> {},
     canonPulse |-> FALSE, pulseTimers |-> 0]

\* setYearRange(minYear, maxYear)
setYearRange(r, minYear, maxYear) == [r EXCEPT !.minYear = minYear, !.maxYear = maxYear]

\* 15 + Math.max(0, Math.min(1, progress)) * 70 with
\* progress = (year - minYear) / (maxYear - minYear); a quotient by zero is
\* +Infinity, -Infinity or NaN
TopPercent(r, year) ==
    LET span == r.maxYear - r.minYear
        clamped == IF span # 0
                   THEN MathMax(Num(0), MathMin(Num(1), Rat(year - r.minYear, span)))
                   ELSE IF year > r.minYear THEN Num(1)
                   ELSE IF year < r.minYear THEN Num(0)
                   ELSE NaN
    IN  RAdd(Num(15), RMul(clamped, Num(70)))

\* the keys of startYears after the first n books, in order of insertion
RECURSIVE StartYears(_, _)
StartYears(bs, n) ==
    IF n = 0 THEN <<>>
    ELSE LET before == StartYears(bs, n - 1)
             date == GetDisplayDate(bs[n])
         IN  IF date.start # Null /\ \A i \in 1..Len(before) : before[i] # date.start[1]
             THEN Append(before, date.start[1])
             ELSE before

\* initTicks(books)
initTicks(r, bs) ==
    IF ~r.dom.timelineTrack THEN r
    ELSE LET startYears == StartYears(bs, Len(bs))
         IN  [r EXCEPT !.tickContainer = TRUE,
                       !.ticks = Sort([i \in 1..Len(startYears) |->
                                         [year |-> startYears[i],
                                          top |-> TopPercent(r, startYears[i]),
                                          visible |-> FALSE]], "a.year")]

\* initEraDividers()
initEraDividers(r, cy) ==
    IF ~r.dom.eraContainer THEN r
    ELSE LET HasStart(era) == era.start # Null
             dated == SelectSeq(ERAS(cy), HasStart)
             erasWithDates == Sort([i \in 1..Len(dated) |->
                                      [id |-> dated[i].id, start |-> dated[i].start[1]]],
                                   "a.start")
         IN  [r EXCEPT !.eraDividers =
                 [i \in 1..Len(erasWithDates) |->
                     [era |-> erasWithDates[i].id, year |-> erasWithDates[i].start,
                      top |-> TopPercent(r, erasWithDates[i].start),
                      visible |-> FALSE, tickVisible |-> FALSE, labelVisible |-> FALSE]]]

\* initMilestones()
initMilestones(r, ms) ==
    IF ~r.dom.eraContainer THEN r
    ELSE LET NotLarge(m) == ~m.isLargeMilestone
             timelineMilestones == SelectSeq(ms, NotLarge)
         IN  [r EXCEPT !.milestones =
                 Sort([i \in 1..Len(timelineMilestones) |->
                         [year |-> timelineMilestones[i].year,
                          top |-> TopPercent(r, timelineMilestones[i].year),
                          visible |-> FALSE, tickVisible |-> FALSE, labelVisible |-> FALSE]],
                      "a.year")]

\* init()
TimelineRenderer_init(r, ms, cy) == initMilestones(initEraDividers(r, cy), ms)

\* updateYearDisplay(year)
updateYearDisplay(r, year) ==
    LET parts == formatYearParts(year)
    IN  [r EXCEPT !.currentYear = Some(year),
                  !.yearNumber = IF r.dom.yearNumber THEN Some(parts.number) ELSE @,
                  !.yearSuffix = IF r.dom.yearSuffix THEN Some(parts.suffix) ELSE @]

\* updateDotPosition(year)
updateDotPosition(r, year) ==
    IF ~r.dom.timelineDot THEN r ELSE [r EXCEPT !.dotTop = Some(TopPercent(r, year))]

\* updateTicks(year)
updateTicks(r, year) ==
    [r EXCEPT !.ticks = [i \in 1..Len(@) |-> [@[i] EXCEPT !.visible = year >= r.ticks[i].year]]]

\* as updateEraDividers, the label shown on every divider passed
updateEraDividersLabelsPassed(r, year, cy) ==
    [r EXCEPT !.eraDividers =
        [i \in 1..Len(@) |->
            [@[i] EXCEPT !.tickVisible = year >= r.eraDividers[i].year,
                         !.labelVisible = year >= r.eraDividers[i].year,
                         !.visible = year >= r.eraDividers[i].year]]]

\* updateEraDividers(year)
updateEraDividers(r, year, cy) ==
    LET currentEra == getEraForYear(year, cy)
    IN  [r EXCEPT !.eraDividers =
            [i \in 1..Len(@) |->
                [@[i] EXCEPT !.tickVisible = year >= r.eraDividers[i].year,
                             !.labelVisible = currentEra = r.eraDividers[i].era,
                             !.visible = year >= r.eraDividers[i].year]]]

\* the most recent milestone passed: the last of this.milestones with
\* year >= milestone.year, Null if there is none
CurrentMilestone(r, year) ==
    LET passed == {i \in 1..Len(r.milestones) : year >= r.milestones[i].year}
    IN  IF passed = {} THEN Null
        ELSE Some(r.milestones[CHOOSE i \in passed : \A j \in passed : j <= i])

\* as updateMilestones, the label shown whether or not "You are here" shows
updateMilestonesIgnoresHere(r, year, cy) ==
    LET currentMilestone == CurrentMilestone(r, year)
    IN  [r EXCEPT !.milestones =
            [i \in 1..Len(@) |->
                [@[i] EXCEPT !.tickVisible = year >= r.milestones[i].year,
                             !.labelVisible = /\ currentMilestone # Null
                                              /\ currentMilestone[1].year = r.milestones[i].year,
                             !.visible = year >= r.milestones[i].year]]]

\* updateMilestones(year)
updateMilestones(r, year, cy) ==
    LET youAreHereVisible == year >= cy - 50
        currentMilestone == CurrentMilestone(r, year)
    IN  [r EXCEPT !.milestones =
            [i \in 1..Len(@) |->
                [@[i] EXCEPT !.tickVisible = year >= r.milestones[i].year,
                             !.labelVisible = /\ currentMilestone # Null
                                              /\ currentMilestone[1].year = r.milestones[i].year
                                              /\ ~youAreHereVisible,
                             !.visible = year >= r.milestones[i].year]]]

canonMilestones == <<382, 393, 397, 405, 1546>>

\* as updateCanonizationGlow, the old level's class left on the container
updateCanonizationGlowKeepsClass(r, year) ==
    IF ~r.tickContainer THEN r
    ELSE LET newLevel == Cardinality({i \in 1..Len(canonMilestones) :
                                         year >= canonMilestones[i]})
         IN  IF newLevel # r.canonizationLevel
             THEN [r EXCEPT !.canonClasses = @ \cup {newLevel},
                            !.canonPulse = IF newLevel > r.canonizationLevel THEN TRUE ELSE @,
                            !.pulseTimers = IF newLevel > r.canonizationLevel THEN @ + 1 ELSE @,
                            !.canonizationLevel = newLevel]
             ELSE r

\* updateCanonizationGlow(year)
updateCanonizationGlow(r, year) ==
    IF ~r.tickContainer THEN r
    ELSE LET newLevel == Cardinality({i \in 1..Len(canonMilestones) :
                                         year >= canonMilestones[i]})
         IN  IF newLevel # r.canonizationLevel
             THEN [r EXCEPT !.canonClasses = (@ \ {r.canonizationLevel}) \cup {newLevel},
                            !.canonPulse = IF newLevel > r.canonizationLevel THEN TRUE ELSE @,
                            !.pulseTimers = IF newLevel > r.canonizationLevel THEN @ + 1 ELSE @,
                            !.canonizationLevel = newLevel]
             ELSE r

\* updateYouAreHere(year)
updateYouAreHere(r, year, cy) ==
    IF ~r.dom.youAreHereMarker THEN r
    ELSE LET shouldBeVisible == year >= cy - 50
         IN  IF shouldBeVisible # r.youAreHereVisible
             THEN [r EXCEPT !.youAreHereVisible = shouldBeVisible,
                            !.youAreHereClass = shouldBeVisible]
             ELSE r

\* updateEraDisplay(era)
updateEraDisplay(r, era) ==
    [r EXCEPT !.currentEra = Some(era),
              !.eraText = IF r.dom.eraText THEN Some(era) ELSE @]

\* TimelineRenderer.update(year) for a year that is not null
TimelineRenderer_update(r, year, cy) ==
    LET shown ==
            IF Some(year) # r.currentYear
            THEN updateYouAreHere(
                     updateCanonizationGlow(
                         updateMilestones(
                             updateEraDividers(
                                 updateTicks(
                                     updateDotPosition(updateYearDisplay(r, year), year),
                                     year),
                                 year, cy),
                             year, cy),
                         year),
                     year, cy)
            ELSE r
        newEra == getEraForYear(year, cy)
    IN  IF shown.currentEra = Null \/ Some(newEra) # shown.currentEra
        THEN updateEraDisplay(shown, newEra)
        ELSE shown

\* highlight(), unhighlight()
highlight(r) == IF ~r.isHighlighted THEN [r EXCEPT !.isHighlighted = TRUE] ELSE r
unhighlight(r) == IF r.isHighlighted THEN [r EXCEPT !.isHighlighted = FALSE] ELSE r

\* the renderer and the milestone cards exercised on MILESTONES
DomInputs ==
    {Dom(TRUE), Dom(FALSE), [Dom(TRUE) EXCEPT !.timelineTrack = FALSE],
     [Dom(TRUE) EXCEPT !.youAreHereMarker = FALSE]}
RendererYears ==
    {-4001, -4000, -1000, -5, 0, 33, 99, 381, 382, 393, 396, 397, 405, 1546, 1975, 1976, 2026,
     2027}
CardYears == {84, 85, 100, 366, 367, 378, 382, 390, 1531, 2026}

\* the books whose start dates become ticks: none, or two that start in the
\* same year and one dated by its writing
TickBooks ==
    {<<>>,
     <<[dateEventsStart |-> Some(390), dateEventsEnd |-> Some(400),
        dateWrittenStart |-> Null, dateWrittenEnd |-> Null],
       [dateEventsStart |-> Null, dateEventsEnd |-> Null,
        dateWrittenStart |-> Some(-5), dateWrittenEnd |-> Some(60)],
       [dateEventsStart |-> Some(390), dateEventsEnd |-> Some(395),
        dateWrittenStart |-> Some(380), dateWrittenEnd |-> Some(385)]>>}

InitMilestones ==
    /\ books \in TickBooks
    /\ milestones = MILESTONES
    /\ CURRENT_YEAR = 2026
    /\ yearMapping = NoMapping
    /\ call = NoCall
    /\ scrollY = 0
    /\ ticking = FALSE
    /\ pending = 0
    /\ view = NoView
    /\ frameRuns = 0
    /\ sinceRun = 0
    /\ served = 0
    /\ resize = NoResize
    /\ messages = <<>>
    /\ bookManager = Null
    /\ messageManager = Null
    /\ milestoneCardManager = MilestoneCardManager_new(milestones)
    /\ \E dom \in DomInputs :
          renderer = TimelineRenderer_init(
                         initTicks(TimelineRenderer_new(dom, CURRENT_YEAR), books),
                         milestones, CURRENT_YEAR)

\* milestoneCardManager.updateForYear(year)
CardUpdateForYear ==
    /\ \E year \in CardYears :
          milestoneCardManager' = MilestoneCardManager_updateForYear(milestoneCardManager, year)
    /\ UNCHANGED <<mappingVars, call, scrollVars>>
    /\ UNCHANGED <<messages, bookManager, messageManager, renderer>>

\* milestoneCardManager.clear()
CardClear ==
    /\ milestoneCardManager' = MilestoneCardManager_clear(milestoneCardManager)
    /\ UNCHANGED <<mappingVars, call, scrollVars>>
    /\ UNCHANGED <<messages, bookManager, messageManager, renderer>>

\* renderer.update(year)
RendererUpdate ==
    /\ \E year \in RendererYears :
          LET after == TimelineRenderer_update(renderer, year, CURRENT_YEAR)
          IN  /\ after.pulseTimers <= MaxPulses
              /\ renderer' = after
    /\ UNCHANGED <<mappingVars, call, scrollVars>>
    /\ UNCHANGED <<messages, bookManager, messageManager, milestoneCardManager>>

\* renderer.highlight() or renderer.unhighlight()
RendererHighlight ==
    /\ \E on \in BOOLEAN :
          renderer' = IF on THEN highlight(renderer) ELSE unhighlight(renderer)
    /\ UNCHANGED <<mappingVars, call, scrollVars>>
    /\ UNCHANGED <<messages, bookManager, messageManager, milestoneCardManager>>

\* a 600 ms timer of updateCanonizationGlow fires:
\* this.tickContainer.classList.remove('canon-pulse')
PulseTimeout ==
    /\ renderer.pulseTimers > 0
    /\ renderer' = [renderer EXCEPT !.pulseTimers = @ - 1, !.canonPulse = FALSE]
    /\ UNCHANGED <<mappingVars, call, scrollVars>>
    /\ UNCHANGED <<messages, bookManager, messageManager, milestoneCardManager>>

NextMilestones ==
    CardUpdateForYear \/ CardClear \/ RendererUpdate \/ RendererHighlight \/ PulseTimeout

SpecMilestones == InitMilestones /\ [][NextMilestones]_vars

\* ---------------------------------------------------------- the page
\* The page once init() has returned: the mapping is built, the managers exist,
\* the scroll listener is registered and handleScroll has run once.
ScrollPositions == 0..MaxScrollY
PageBooks ==
    {<<>>, <<[dateEventsStart |-> Some(-100), dateEventsEnd |-> Some(0),
              dateWrittenStart |-> Null, dateWrittenEnd |-> Null]>>}
PageMilestones ==
    {<<>>, <<[year |-> 0, displayStart |-> 0, displayEnd |-> 1, isLargeMilestone |-> FALSE]>>}

\* handleScroll() reading window.scrollY = y: what it puts on the page.
\*   at          the scrollY it read
\*   header      siteHeader has class 'visible'
\*   year        the argument of renderer.update
\*   highlighted renderer.highlight() / renderer.unhighlight()
\*   shown       the year passed to the three managers' updateForYear, Null
\*               after their clear()
\*   columns     bookColumns has class 'visible'
handleScroll(m, y) ==
    LET introHeight == IntroHeight
        closingOffset == ClosingOffset
        header == 10 * y > 7 * introHeight
    IN  IF 2 * y < introHeight
        THEN [at |-> Some(y), zone |-> "intro", header |-> header, year |-> Some(m.minYear),
              highlighted |-> FALSE, shown |-> Null, columns |-> FALSE]
        ELSE IF 2 * y > 2 * closingOffset - InnerHeight
        THEN [at |-> Some(y), zone |-> "closing", header |-> header, year |-> Some(m.maxYear),
              highlighted |-> TRUE, shown |-> Null, columns |-> FALSE]
        ELSE LET scrollStart == introHeight
                 scrollEnd == closingOffset - InnerHeight
                 scrollRange == scrollEnd - scrollStart
                 progress == MathMax(Num(0), MathMin(Num(1), Rat(y - scrollStart, scrollRange)))
                 year == scrollToYear(m, progress)
             IN  [at |-> Some(y), zone |-> "timeline", header |-> header, year |-> Some(year),
                  highlighted |-> TRUE, shown |-> Some(year), columns |-> TRUE]

\* the query handleScroll makes on the mapping, if it makes one
handleScrollCall(m, y, before) ==
    IF 2 * y < IntroHeight \/ 2 * y > 2 * ClosingOffset - InnerHeight
    THEN before
    ELSE LET progress == MathMax(Num(0), MathMin(Num(1),
                             Rat(y - IntroHeight, ClosingOffset - InnerHeight - IntroHeight)))
         IN  [fn |-> "scrollToYear", arg |-> progress, ret |-> scrollToYear(m, progress),
              of |-> Null]

\* the renderer and the three managers of the page
Managers ==
    [renderer |-> renderer, bookManager |-> bookManager,
     messageManager |-> messageManager, milestoneCardManager |-> milestoneCardManager]

\* main.js init(): the renderer and the managers it constructs, the message
\* container present
NewManagers(m, bs, ms, msgs, cy) ==
    [renderer |-> TimelineRenderer_init(
                      initTicks(setYearRange(TimelineRenderer_new(Dom(TRUE), cy),
                                             m.minYear, m.maxYear), bs),
                      ms, cy),
     bookManager |-> BookManager_new(bs),
     messageManager |-> MessageManager_new(msgs, TRUE),
     milestoneCardManager |-> MilestoneCardManager_new(ms)]

\* as handleScrollPage, bookManager.clear() left out of the intro and closing states
handleScrollPageKeepsBooks(m, y, cy, p) ==
    IF 2 * y < IntroHeight
    THEN [renderer |-> unhighlight(TimelineRenderer_update(p.renderer, m.minYear, cy)),
          bookManager |-> p.bookManager,
          messageManager |-> MessageManager_clear(p.messageManager),
          milestoneCardManager |-> MilestoneCardManager_clear(p.milestoneCardManager)]
    ELSE IF 2 * y > 2 * ClosingOffset - InnerHeight
    THEN [renderer |-> highlight(TimelineRenderer_update(p.renderer, m.maxYear, cy)),
          bookManager |-> p.bookManager,
          messageManager |-> MessageManager_clear(p.messageManager),
          milestoneCardManager |-> MilestoneCardManager_clear(p.milestoneCardManager)]
    ELSE LET year == handleScroll(m, y).year[1]
         IN  [renderer |-> highlight(TimelineRenderer_update(p.renderer, year, cy)),
              bookManager |-> BookManager_updateForYear(p.bookManager, year),
              milestoneCardManager |->
                  MilestoneCardManager_updateForYear(p.milestoneCardManager, year),
              messageManager |-> MessageManager_updateForYear(p.messageManager, year)]

\* handleScroll() reading window.scrollY = y: what it does to the renderer and
\* the managers p
handleScrollPage(m, y, cy, p) ==
    IF 2 * y < IntroHeight
    THEN [renderer |-> unhighlight(TimelineRenderer_update(p.renderer, m.minYear, cy)),
          bookManager |-> BookManager_clear(p.bookManager),
          messageManager |-> MessageManager_clear(p.messageManager),
          milestoneCardManager |-> MilestoneCardManager_clear(p.milestoneCardManager)]
    ELSE IF 2 * y > 2 * ClosingOffset - InnerHeight
    THEN [renderer |-> highlight(TimelineRenderer_update(p.renderer, m.maxYear, cy)),
          bookManager |-> BookManager_clear(p.bookManager),
          messageManager |-> MessageManager_clear(p.messageManager),
          milestoneCardManager |-> MilestoneCardManager_clear(p.milestoneCardManager)]
    ELSE LET year == handleScroll(m, y).year[1]
         IN  [renderer |-> highlight(TimelineRenderer_update(p.renderer, year, cy)),
              bookManager |-> BookManager_updateForYear(p.bookManager, year),
              milestoneCardManager |->
                  MilestoneCardManager_updateForYear(p.milestoneCardManager, year),
              messageManager |-> MessageManager_updateForYear(p.messageManager, year)]

InitScroll ==
    /\ books \in PageBooks
    /\ milestones \in PageMilestones
    /\ CURRENT_YEAR = 100
    /\ yearMapping = BuildYearMapping(books, milestones, CURRENT_YEAR)
    /\ scrollY \in {0, MaxScrollY \div 2}
    /\ ticking = FALSE
    /\ pending = 0
    /\ view = handleScroll(yearMapping, scrollY)
    /\ call = handleScrollCall(yearMapping, scrollY, NoCall)
    /\ frameRuns = 0
    /\ sinceRun = 0
    /\ served = 0
    /\ resize = NoResize
    /\ messages = <<>>
    /\ LET after == handleScrollPage(yearMapping, scrollY, CURRENT_YEAR,
                                     NewManagers(yearMapping, books, milestones, messages,
                                                 CURRENT_YEAR))
       IN  /\ renderer = after.renderer
           /\ bookManager = after.bookManager
           /\ messageManager = after.messageManager
           /\ milestoneCardManager = after.milestoneCardManager

\* as ScrollEvent, with no test of ticking: every event requests a frame
ScrollEventNoThrottle ==
    /\ pending < MaxPending
    /\ \E y \in ScrollPositions : scrollY' = y
    /\ pending' = pending + 1
    /\ ticking' = TRUE
    /\ sinceRun' = IF sinceRun < MaxCounted THEN sinceRun + 1 ELSE sinceRun
    /\ UNCHANGED <<view, call, frameRuns, served, resize>>
    /\ UNCHANGED mappingVars
    /\ UNCHANGED managerVars

\* the window scrolls to y and the 'scroll' listener runs
ScrollEvent ==
    /\ \E y \in ScrollPositions : scrollY' = y
    /\ IF ~ticking
       THEN /\ pending' = pending + 1
            /\ ticking' = TRUE
       ELSE UNCHANGED <<pending, ticking>>
    /\ sinceRun' = IF sinceRun < MaxCounted THEN sinceRun + 1 ELSE sinceRun
    /\ UNCHANGED <<view, call, frameRuns, served, resize>>
    /\ UNCHANGED mappingVars
    /\ UNCHANGED managerVars

\* as AnimationFrame, the callback not resetting ticking
AnimationFrameKeepsTicking ==
    /\ pending > 0
    /\ view' = handleScroll(yearMapping, scrollY)
    /\ call' = handleScrollCall(yearMapping, scrollY, call)
    /\ pending' = 0
    /\ frameRuns' = pending
    /\ served' = sinceRun
    /\ sinceRun' = 0
    /\ LET after == handleScrollPage(yearMapping, scrollY, CURRENT_YEAR, Managers)
       IN  /\ renderer' = after.renderer
           /\ bookManager' = after.bookManager
           /\ messageManager' = after.messageManager
           /\ milestoneCardManager' = after.milestoneCardManager
    /\ UNCHANGED <<scrollY, ticking, messages, resize>>
    /\ UNCHANGED mappingVars

\* the browser runs an animation frame: every callback requested since the last
\* frame runs, each one handleScroll(); ticking = false
AnimationFrame ==
    /\ pending > 0
    /\ view' = handleScroll(yearMapping, scrollY)
    /\ call' = handleScrollCall(yearMapping, scrollY, call)
    /\ ticking' = FALSE
    /\ pending' = 0
    /\ frameRuns' = pending
    /\ served' = sinceRun
    /\ sinceRun' = 0
    /\ LET after == handleScrollPage(yearMapping, scrollY, CURRENT_YEAR, Managers)
       IN  /\ renderer' = after.renderer
           /\ bookManager' = after.bookManager
           /\ messageManager' = after.messageManager
           /\ milestoneCardManager' = after.milestoneCardManager
    /\ UNCHANGED <<scrollY, messages, resize>>
    /\ UNCHANGED mappingVars

NextScroll == ScrollEvent \/ AnimationFrame

\* a step that runs the requested callbacks: within NextScroll these are the
\* AnimationFrame steps, and it is enabled exactly when AnimationFrame is
RunsFrame == pending > 0 /\ pending' = 0

\* a requested animation frame is eventually run by the browser
SpecScroll == InitScroll /\ [][NextScroll]_vars /\ WF_pending(RunsFrame)

\* ------------------------------------------------- the resize listener
\* as debounced, without clearTimeout(timeout)
debouncedNoClear(rz) ==
    [rz EXCEPT !.timers = Append(rz.timers, RESIZE_DELAY),
               !.since = Some(0), !.runs = 0]

\* the function debounce(fn, 100) returns, called by a resize event:
\* clearTimeout(timeout) takes the newest timer away if it is still pending,
\* setTimeout makes a timer of 100 ms
debounced(rz) ==
    LET cleared == IF rz.timers = <<>> THEN <<>>
                   ELSE SubSeq(rz.timers, 1, Len(rz.timers) - 1)
    IN  [rz EXCEPT !.timers = Append(cleared, RESIZE_DELAY),
                   !.since = Some(0), !.runs = 0]

\* the oldest timer fires and runs fn
TimerFired(rz) ==
    [rz EXCEPT !.timers = Tail(rz.timers),
               !.runs = IF @ < MaxTimers THEN @ + 1 ELSE @,
               !.invokedAfter = rz.since]

\* time passes: up to TimeStep ms, and not beyond the moment a timer is due
Elapsed(rz) ==
    LET dt == IF rz.timers # <<>> /\ rz.timers[1] < TimeStep THEN rz.timers[1] ELSE TimeStep
    IN  [rz EXCEPT !.timers = [i \in 1..Len(rz.timers) |-> rz.timers[i] - dt],
                   !.since = IF @ = Null THEN Null
                             ELSE IF @[1] + dt > RESIZE_DELAY THEN Some(RESIZE_DELAY)
                             ELSE Some(@[1] + dt)]

\* the initialized page at some scroll position, the window not scrolled
InitResize ==
    /\ books \in PageBooks
    /\ milestones \in PageMilestones
    /\ CURRENT_YEAR = 100
    /\ yearMapping = BuildYearMapping(books, milestones, CURRENT_YEAR)
    /\ scrollY \in ScrollPositions
    /\ ticking = FALSE
    /\ pending = 0
    /\ view = handleScroll(yearMapping, scrollY)
    /\ call = handleScrollCall(yearMapping, scrollY, NoCall)
    /\ frameRuns = 0
    /\ sinceRun = 0
    /\ served = 0
    /\ resize = NoResize
    /\ messages = <<>>
    /\ LET after == handleScrollPage(yearMapping, scrollY, CURRENT_YEAR,
                                     NewManagers(yearMapping, books, milestones, messages,
                                                 CURRENT_YEAR))
       IN  /\ renderer = after.renderer
           /\ bookManager = after.bookManager
           /\ messageManager = after.messageManager
           /\ milestoneCardManager = after.milestoneCardManager

\* the window is resized and the 'resize' listener runs
ResizeEvent ==
    /\ LET after == debounced(resize)
       IN  /\ Len(after.timers) <= MaxTimers
           /\ resize' = after
    /\ UNCHANGED <<scrollY, ticking, pending, view, frameRuns, sinceRun, served>>
    /\ UNCHANGED <<mappingVars, call, managerVars>>

\* a timer of debounce is due: () => fn.apply(this, args), which is handleScroll()
ResizeTimeout ==
    /\ resize.timers # <<>>
    /\ resize.timers[1] = 0
    /\ resize' = TimerFired(resize)
    /\ view' = handleScroll(yearMapping, scrollY)
    /\ call' = handleScrollCall(yearMapping, scrollY, call)
    /\ LET after == handleScrollPage(yearMapping, scrollY, CURRENT_YEAR, Managers)
       IN  /\ renderer' = after.renderer
           /\ bookManager' = after.bookManager
           /\ messageManager' = after.messageManager
           /\ milestoneCardManager' = after.milestoneCardManager
    /\ UNCHANGED <<scrollY, ticking, pending, frameRuns, sinceRun, served, messages>>
    /\ UNCHANGED mappingVars

\* time passes while no timer is due
Tick ==
    /\ IF resize.timers = <<>> THEN TRUE ELSE resize.timers[1] > 0
    /\ resize' = Elapsed(resize)
    /\ UNCHANGED <<scrollY, ticking, pending, view, frameRuns, sinceRun, served>>
    /\ UNCHANGED <<mappingVars, call, managerVars>>

NextResize == ResizeEvent \/ ResizeTimeout \/ Tick

\* what a due timer and the passing of time do to the listener; within
\* NextResize these are the ResizeTimeout and the Tick steps
FiresTimer ==
    /\ resize.timers # <<>>
    /\ resize.timers[1] = 0
    /\ resize' = TimerFired(resize)
TimePasses ==
    /\ IF resize.timers = <<>> THEN TRUE ELSE resize.timers[1] > 0
    /\ resize' = Elapsed(resize)

\* time goes on and a due timer fires
SpecResize ==
    InitResize /\ [][NextResize]_vars /\ WF_resize(FiresTimer) /\ WF_resize(TimePasses)

\* ---------------------------------------------------------- properties
Built == yearMapping.mode = "table"
Table == yearMapping.normalizedPositions
\* the entries of the table with the smallest and the largest grid year
FirstEntry == Table[CHOOSE i \in 1..Len(Table) : \A j \in 1..Len(Table) : Table[i][1] <= Table[j][1]]
LastEntry == Table[CHOOSE i \in 1..Len(Table) : \A j \in 1..Len(Table) : Table[i][1] >= Table[j][1]]
\* no book has a usable start date and there is no milestone
NoEvents ==
    /\ \A i \in 1..Len(books) : GetDisplayDate(books[i]).start = Null
    /\ milestones = <<>>

\* C1: in every table built, the stored position is strictly increasing with
\* the grid year (y1 < y2 gives position(y1) < position(y2)), and so
\* yearToScroll(y1) <= yearToScroll(y2).
C1_PositionsIncrease ==
    Built =>
        \A i, j \in 1..Len(Table) :
            Table[i][1] < Table[j][1] =>
                /\ RLt(Table[i][2], Table[j][2])
                /\ RLeq(yearToScroll(yearMapping, Table[i][1]),
                        yearToScroll(yearMapping, Table[j][1]))

C1_Witness ==
    /\ Built
    /\ Len(Table) >= 3
    /\ call.fn = "yearToScroll"
    /\ MapHas(Table, call.arg)
    /\ call.arg # FirstEntry[1]

\* C2: for every grid year y of a built table, scrollToYear(yearToScroll(y))
\* differs from y by at most 1, both computed on the table and as observed
\* when the position returned for y is fed back.
C2_RoundTrip ==
    Built =>
        /\ \A i \in 1..Len(Table) :
              Abs(scrollToYear(yearMapping, yearToScroll(yearMapping, Table[i][1]))
                    - Table[i][1]) <= 1
        /\ (call.fn = "scrollToYear" /\ call.of # Null /\ MapHas(Table, call.of[1]))
              => Abs(call.ret - call.of[1]) <= 1

C2_Witness ==
    /\ Built
    /\ call.fn = "scrollToYear"
    /\ call.of # Null
    /\ MapHas(Table, call.of[1])
    /\ call.of[1] # FirstEntry[1]
    /\ call.of[1] # LastEntry[1]

\* C3: for every mapping returned, scrollToYear(0) is the returned minYear and
\* scrollToYear(1) is the returned maxYear.
C3_ScrollBoundaries ==
    yearMapping.mode # "null" =>
        /\ scrollToYear(yearMapping, Num(0)) = yearMapping.minYear
        /\ scrollToYear(yearMapping, Num(1)) = yearMapping.maxYear

\* C4: on a built table, scrollToYear(p) for p < 0 is scrollToYear(0) and for
\* p > 1 is scrollToYear(1); yearToScroll(y) for y below the first grid year is
\* the first table position and for y above the last grid year the last one.
C4_Clamping ==
    Built =>
        /\ \A p \in ScrollInputs :
              /\ RLt(p, Num(0)) =>
                    scrollToYear(yearMapping, p) = scrollToYear(yearMapping, Num(0))
              /\ RLt(Num(1), p) =>
                    scrollToYear(yearMapping, p) = scrollToYear(yearMapping, Num(1))
        /\ \A y \in YearQueries :
              /\ y < FirstEntry[1] => yearToScroll(yearMapping, y) = FirstEntry[2]
              /\ y > LastEntry[1] => yearToScroll(yearMapping, y) = LastEntry[2]
        /\ (call.fn = "yearToScroll" /\ call.arg < FirstEntry[1]) => call.ret = FirstEntry[2]
        /\ (call.fn = "yearToScroll" /\ call.arg > LastEntry[1]) => call.ret = LastEntry[2]

C4_Witness ==
    /\ Built
    /\ Len(Table) >= 2
    /\ call.fn = "yearToScroll"
    /\ call.arg < FirstEntry[1]
    /\ call.ret = Rat(2, 100)

\* C5: with no event, buildYearMapping returns minYear = -4000, maxYear = 100,
\* no events, scrollToYear(p) = round(-4000 + 4100 p) (so -1950 at 0.5) and
\* yearToScroll(y) = (y + 4000) / 4100.
C5_EmptyFallback ==
    (yearMapping.mode # "null" /\ NoEvents) =>
        /\ yearMapping.mode = "identity"
        /\ yearMapping.minYear = -4000
        /\ yearMapping.maxYear = 100
        /\ yearMapping.events = <<>>
        /\ scrollToYear(yearMapping, Rat(1, 2)) = -1950
        /\ \A n \in -1..(PosDen + 1) :
              scrollToYear(yearMapping, Rat(n, PosDen))
                = (2 * (4100 * n - 4000 * PosDen) + PosDen) \div (2 * PosDen)
        /\ \A y \in YearQueries :
              LET r == yearToScroll(yearMapping, y)
              IN  r[2] > 0 /\ r[1] * 4100 = (y + 4000) * r[2]
        /\ (call.fn = "scrollToYear" /\ call.arg = Rat(1, 2)) => call.ret = -1950

C5_Witness ==
    /\ yearMapping.mode = "identity"
    /\ Len(books) > 0
    /\ call.fn = "scrollToYear"
    /\ call.arg = Rat(1, 2)
    /\ call.ret = -1950

\* C6: in every mode, the empty-input fallback included, scrollToYear(p) lies
\* in [minYear, maxYear] for every p and yearToScroll(y) lies in [0, 1] for
\* every year y.
C6_AllClamped ==
    yearMapping.mode # "null" =>
        /\ \A p \in ScrollInputs :
              /\ yearMapping.minYear <= scrollToYear(yearMapping, p)
              /\ scrollToYear(yearMapping, p) <= yearMapping.maxYear
        /\ \A y \in YearQueries :
              /\ RLeq(Num(0), yearToScroll(yearMapping, y))
              /\ RLeq(yearToScroll(yearMapping, y), Num(1))

\* C7: a table with a single grid year (total accumulated weight zero) gives
\* that year a defined numeric position, which yearToScroll returns and which
\* scrollToYear maps back to the year.
C7_SingleYearDefined ==
    (Built /\ Len(Table) = 1) =>
        /\ ~IsNaN(Table[1][2])
        /\ yearToScroll(yearMapping, Table[1][1]) = Table[1][2]
        /\ scrollToYear(yearMapping, Table[1][2]) = Table[1][1]

\* C8: the grid-year sequence uniqueYears is strictly increasing, without
\* duplicates, for all books, milestones and current years.
C8_UniqueYearsStrict ==
    Built =>
        \A i \in 1..(Len(yearMapping.uniqueYears) - 1) :
            yearMapping.uniqueYears[i] < yearMapping.uniqueYears[i + 1]

\* C9: in a table with at least two distinct grid years the first grid year
\* sits at 0.02, the last at 0.98, the others strictly between, and position
\* differences are in the ratio of the accumulated-weight differences (each
\* difference taken as a fraction of the whole span, first to last).
C9_Margins ==
    (Built /\ Len(Table) >= 2) =>
        LET first == FirstEntry
            last == LastEntry
            acc(e) == MapGet(yearMapping.yearPositions, e[1])
        IN  /\ first[2] = Rat(2, 100)
            /\ last[2] = Rat(98, 100)
            /\ \A i \in 1..Len(Table) :
                  (Table[i] # first /\ Table[i] # last) =>
                      RLt(Rat(2, 100), Table[i][2]) /\ RLt(Table[i][2], Rat(98, 100))
            /\ acc(first) # acc(last)
            /\ \A i, j \in 1..Len(Table) :
                  RDiv(RSub(Table[j][2], Table[i][2]), RSub(last[2], first[2]))
                    = Rat(acc(Table[j]) - acc(Table[i]), acc(last) - acc(first))

C9_Witness ==
    /\ Built
    /\ Len(Table) >= 4
    /\ Table[1][2] = Rat(2, 100)
    /\ Table[Len(Table)][2] = Rat(98, 100)

\* C10: for every built mapping, yearToScroll(minYear) is the first (smallest)
\* position of the table and yearToScroll(maxYear) the last (largest) one,
\* minYear and maxYear being the fields of the returned object.
C10_YearBoundaries ==
    Built =>
        /\ yearToScroll(yearMapping, yearMapping.minYear) = FirstEntry[2]
        /\ yearToScroll(yearMapping, yearMapping.maxYear) = LastEntry[2]

\* ------------------------------------------- properties of the segments
\* Segment i runs from uniqueYears[i] to uniqueYears[i + 1].
Segments == 1..(Len(yearMapping.uniqueYears) - 1)
SegFrom(i) == yearMapping.uniqueYears[i]
SegTo(i) == yearMapping.uniqueYears[i + 1]
SegGap(i) == SegTo(i) - SegFrom(i)
\* the rounded midpoint year of segment i
SegMid(i) == MathRound(Rat(SegFrom(i) + SegTo(i), 2))
\* the weight segment i added to the accumulated position
SegWeight(i) ==
    MapGet(yearMapping.yearPositions, SegTo(i)) - MapGet(yearMapping.yearPositions, SegFrom(i))
\* the normalized position span of segment i
SegSpan(i) == RSub(MapGet(Table, SegTo(i)), MapGet(Table, SegFrom(i)))
\* the dated books and the milestones whose interval covers year y
BooksCovering(y) ==
    {n \in 1..Len(books) :
        LET date == GetDisplayDate(books[n])
        IN  date.start # Null /\ date.start[1] <= y /\ y <= date.end[1]}
MilestonesCovering(y) ==
    {n \in 1..Len(milestones) : milestones[n].displayStart <= y /\ y <= milestones[n].displayEnd}
\* the shortest duration among the books covering year y
ShortestCovering(y) ==
    LET dur(n) == GetDisplayDate(books[n]).end[1] - GetDisplayDate(books[n]).start[1]
    IN  CHOOSE d \in {dur(n) : n \in BooksCovering(y)} : \A n \in BooksCovering(y) : d <= dur(n)
\* sqrt(gap) of segment i, in units of 1/WeightScale
SegBase(i) == MathSqrt(SegGap(i))

\* C11: a segment whose midpoint is covered by a book and by a milestone gets
\* the book density multiplier only (its weight is what it is without any
\* milestone); the milestone multiplier 40 + 20 m is applied only to segments
\* whose midpoint no book covers.
C11_BookWins ==
    Built =>
        \A i \in Segments :
            LET n == Cardinality(BooksCovering(SegMid(i)))
                m == Cardinality(MilestonesCovering(SegMid(i)))
            IN  /\ (n >= 1 /\ m >= 1) =>
                      SegWeight(i) = ScrollWeight(SegFrom(i), SegTo(i),
                                                  BookRanges(books, Len(books)), <<>>)
                /\ (n = 0 /\ m >= 1) => SegWeight(i) = SegBase(i) * (40 + 20 * m)
                /\ (n = 0 /\ m = 0) => SegWeight(i) = SegBase(i)

C11_Witness ==
    /\ Built
    /\ \E i \in Segments :
          /\ SegGap(i) > 0
          /\ BooksCovering(SegMid(i)) # {}
          /\ MilestonesCovering(SegMid(i)) # {}
    /\ \E i \in Segments :
          /\ SegGap(i) > 0
          /\ BooksCovering(SegMid(i)) = {}
          /\ MilestonesCovering(SegMid(i)) # {}

\* C12: of two adjacent segments with the same year gap, one whose midpoint is
\* covered by a book interval and the other by no interval at all, the first has
\* the strictly larger normalized position span.
C12_DensitySlowdown ==
    Built =>
        \A i, j \in Segments :
            (/\ (j = i + 1 \/ i = j + 1)
             /\ SegGap(i) = SegGap(j)
             /\ BooksCovering(SegMid(i)) # {}
             /\ BooksCovering(SegMid(j)) = {}
             /\ MilestonesCovering(SegMid(j)) = {})
                => RLt(SegSpan(j), SegSpan(i))

C12_Witness ==
    /\ Built
    /\ \E i, j \in Segments :
          /\ j = i + 1
          /\ SegGap(i) = SegGap(j)
          /\ SegGap(i) > 0
          /\ BooksCovering(SegMid(i)) # {}
          /\ BooksCovering(SegMid(j)) = {}
          /\ MilestonesCovering(SegMid(j)) = {}
          /\ RLt(SegSpan(j), SegSpan(i))

\* C13: no segment weight is negative; a segment between two different grid
\* years has a strictly positive weight; a segment with a zero year gap has
\* weight 0, so its two years have the same accumulated position.
C13_WeightSign ==
    Built =>
        \A i \in Segments :
            LET w == ScrollWeight(SegFrom(i), SegTo(i), BookRanges(books, Len(books)),
                                  MilestoneRanges(milestones))
            IN  /\ w >= 0
                /\ SegWeight(i) = w
                /\ SegGap(i) # 0 => w > 0
                /\ SegGap(i) = 0 => w = 0

C13_Witness ==
    /\ Built
    /\ \E i \in Segments : SegGap(i) = 0
    /\ \E i \in Segments : SegGap(i) = 1
    /\ \E i \in Segments : SegGap(i) > 1

\* C14: a segment whose midpoint is covered by n >= 1 books, the shortest
\* lasting d years, has weight sqrt(gap) * (4 + 1.5 n) * b with
\* b = max(1, 4 - d/33) if d < 100 and b = 1 otherwise; b lies in [1, 4], is 4
\* at d = 0 and never increases with d.  (Weights are in units of
\* 1/WeightScale, rounded down; b is in 33rds.)
C14_BookMultiplier ==
    /\ Built =>
          \A i \in Segments :
              LET n == Cardinality(BooksCovering(SegMid(i)))
                  d == ShortestCovering(SegMid(i))
                  b33 == IF d < 100 THEN (IF 132 - d > 33 THEN 132 - d ELSE 33) ELSE 33
              IN  n >= 1 =>
                      /\ d >= 0
                      /\ SegWeight(i) = (SegBase(i) * (8 + 3 * n) * b33) \div 66
    /\ DurationBonus33(0) = 4 * 33
    /\ \A d \in 0..MaxDuration :
          /\ 33 <= DurationBonus33(d)
          /\ DurationBonus33(d) <= 4 * 33
          /\ d < MaxDuration => DurationBonus33(d + 1) <= DurationBonus33(d)

C14_Witness ==
    /\ Built
    /\ \E i \in Segments :
          /\ SegGap(i) > 0
          /\ Cardinality(BooksCovering(SegMid(i))) = 2
          /\ ShortestCovering(SegMid(i)) < 100
    /\ \E i \in Segments :
          /\ SegGap(i) > 0
          /\ BooksCovering(SegMid(i)) # {}
          /\ ShortestCovering(SegMid(i)) >= 100

\* C15: queries never change the mapping: across any sequence of scrollToYear
\* and yearToScroll calls the table, minYear and maxYear stay as built, and
\* what a query returns is the function of its argument on that table.
C15_ReadOnly ==
    [][yearMapping.mode # "null" =>
          /\ yearMapping' = yearMapping
          /\ call'.fn = "scrollToYear" => call'.ret = scrollToYear(yearMapping, call'.arg)
          /\ call'.fn = "yearToScroll" => call'.ret = yearToScroll(yearMapping, call'.arg)]_vars

C15_Witness ==
    /\ Built
    /\ call.fn = "scrollToYear"
    /\ call.of # Null
    /\ ~MapHas(Table, call.of[1])

\* C16: whenever there is an event, the table is built, CURRENT_YEAR is one of
\* its grid years with a stored position, yearToScroll(CURRENT_YEAR) is that
\* stored position, and maxYear is CURRENT_YEAR.
C16_CurrentYearWaypoint ==
    /\ (yearMapping.mode # "null" /\ ~NoEvents) => Built
    /\ Built =>
          /\ \E i \in 1..Len(yearMapping.uniqueYears) : yearMapping.uniqueYears[i] = CURRENT_YEAR
          /\ MapHas(Table, CURRENT_YEAR)
          /\ yearToScroll(yearMapping, CURRENT_YEAR) = MapGet(Table, CURRENT_YEAR)
          /\ yearMapping.maxYear = CURRENT_YEAR
          /\ (call.fn = "yearToScroll" /\ call.arg = CURRENT_YEAR)
                => call.ret = MapGet(Table, CURRENT_YEAR)

C16_Witness ==
    /\ Built
    /\ \A i \in 1..Len(yearMapping.events) : yearMapping.events[i].year # CURRENT_YEAR
    /\ call.fn = "yearToScroll"
    /\ call.arg = CURRENT_YEAR
    /\ ~IsNaN(call.ret)

\* the resolved start of book n: the event start, or the writing start when the
\* event start is null
ResolvedStart(n) ==
    IF books[n].dateEventsStart # Null THEN books[n].dateEventsStart
    ELSE books[n].dateWrittenStart
DatedBooks == {n \in 1..Len(books) : ResolvedStart(n) # Null}
EventsOf(type, n) ==
    {i \in 1..Len(yearMapping.events) :
        yearMapping.events[i].type = type /\ yearMapping.events[i].id = n}

\* C17: a book whose resolved start is null contributes no event and no book
\* range; every other book contributes one start event, one end event and one
\* book range; every milestone one milestone-start event, one milestone-end
\* event and one milestone range; the event list has
\* 2 * (dated books) + 2 * (milestones) entries.
C17_IntervalCollection ==
    yearMapping.mode # "null" =>
        /\ Len(yearMapping.events) = 2 * Cardinality(DatedBooks) + 2 * Len(milestones)
        /\ Len(BookRanges(books, Len(books))) = Cardinality(DatedBooks)
        /\ Len(MilestoneRanges(milestones)) = Len(milestones)
        /\ \A n \in 1..Len(books) :
              /\ Cardinality(EventsOf("start", n)) = (IF n \in DatedBooks THEN 1 ELSE 0)
              /\ Cardinality(EventsOf("end", n)) = (IF n \in DatedBooks THEN 1 ELSE 0)
        /\ \A n \in 1..Len(milestones) :
              /\ Cardinality(EventsOf("milestone-start", n)) = 1
              /\ Cardinality(EventsOf("milestone-end", n)) = 1

C17_Witness ==
    /\ Built
    /\ Len(books) = 2
    /\ \E n \in 1..Len(books) : ResolvedStart(n) = Null
    /\ \E n \in 1..Len(books) : books[n].dateEventsStart = Null /\ ResolvedStart(n) # Null

\* C18: buildYearMapping given a book or a milestone interval with end < start
\* fails instead of returning a mapping.
C18_MalformedRejected ==
    (\/ \E n \in DatedBooks : GetDisplayDate(books[n]).end[1] < GetDisplayDate(books[n]).start[1]
     \/ \E n \in 1..Len(milestones) : milestones[n].displayEnd < milestones[n].displayStart)
        => yearMapping.mode = "null"

\* ------------------------------------- properties of the scroll throttle
\* C19: with every requested animation frame eventually run, every scroll
\* event is eventually followed by a handleScroll that starts after it, and
\* whenever no scroll event is waiting for one the page shows the current
\* scroll position; events that arrive while a frame is pending request none
\* (after two or more events there is still one callback pending).
C19_NoLostUpdate ==
    /\ [](sinceRun = 0 => view.at = Some(scrollY))
    /\ [](sinceRun >= 2 => pending <= 1)
    /\ (sinceRun > 0) ~> (sinceRun = 0)

C19_Witness ==
    /\ served >= 2
    /\ sinceRun = 0
    /\ view.at = Some(scrollY)
    /\ view.zone = "timeline"

\* C20: at most one animation-frame callback of the scroll listener is pending,
\* ticking is true exactly while one is pending, and an animation frame runs
\* handleScroll at most once.
C20_ThrottleSafety ==
    /\ pending <= 1
    /\ ticking <=> (pending = 1)
    /\ frameRuns <= 1

C20_Witness ==
    /\ ticking
    /\ pending = 1
    /\ sinceRun >= 2
    /\ frameRuns = 1

\* ------------------------------------------- properties of scrollToYear
\* the positions scrollToYear is compared on: ScrollInputs, the table's own
\* positions and the midpoints between consecutive ones
ProbePositions ==
    ScrollInputs
    \cup {yearMapping.sortedYears[i][2] : i \in 1..Len(yearMapping.sortedYears)}
    \cup {RDiv(RAdd(yearMapping.sortedYears[i][2], yearMapping.sortedYears[i + 1][2]), Num(2)) :
             i \in 1..(Len(yearMapping.sortedYears) - 1)}

\* C24: on a built mapping scrollToYear is monotone (p1 <= p2 gives
\* scrollToYear(p1) <= scrollToYear(p2)), and for a position between the table
\* positions of two consecutive grid years g1 < g2 it returns a whole year in
\* [g1, g2].  (Evaluated on the state the build leaves, before any query.)
C24_MonotoneBracketed ==
    (Built /\ call.fn = "none") =>
        LET sy == yearMapping.sortedYears
            year == [p \in ProbePositions |-> scrollToYear(yearMapping, p)]
        IN  /\ \A p1, p2 \in ProbePositions : RLeq(p1, p2) => year[p1] <= year[p2]
            /\ \A p \in ProbePositions : year[p] \in Int
            /\ \A i \in 1..(Len(sy) - 1) : \A p \in ProbePositions :
                  (RLeq(sy[i][2], p) /\ RLeq(p, sy[i + 1][2]))
                      => (sy[i][1] <= year[p] /\ year[p] <= sy[i + 1][1])

C24_Witness ==
    /\ Built
    /\ call.fn = "none"
    /\ \E i \in 1..(Len(yearMapping.sortedYears) - 1) : \E p \in ProbePositions :
          /\ RLt(yearMapping.sortedYears[i][2], p)
          /\ RLt(p, yearMapping.sortedYears[i + 1][2])
          /\ yearMapping.sortedYears[i][1] < scrollToYear(yearMapping, p)
          /\ scrollToYear(yearMapping, p) < yearMapping.sortedYears[i + 1][1]

\* ------------------------------------------ properties of the BookManager
VisibleBooks == bookManager.visibleBooks
OccupiedCells == bookManager.occupiedCells
\* the books whose extended range holds year y
InRangeBooks(y) ==
    {bookManager.booksByDate[i].id : i \in {j \in 1..Len(bookManager.booksByDate) :
        /\ bookManager.booksByDate[j].start - bookManager.booksByDate[j].leadYears <= y
        /\ y <= bookManager.booksByDate[j].end + bookManager.booksByDate[j].leadYears}}
VisibleIds == {VisibleBooks[i][1] : i \in 1..Len(VisibleBooks)}
\* a book added later than another holds a lower cell
CellReused ==
    \E i, j \in 1..Len(VisibleBooks) : i < j /\ VisibleBooks[i][2] > VisibleBooks[j][2]

\* C21: occupiedCells and visibleBooks are inverse maps: every visible book
\* holds one cell of 0..11 that occupiedCells gives back to it, every occupied
\* cell is held by a visible book, no two visible books share a cell, and at
\* most 12 books are visible.
C21_GridInverse ==
    /\ \A i \in 1..Len(VisibleBooks) :
          /\ VisibleBooks[i][2] \in 0..11
          /\ MapHas(OccupiedCells, VisibleBooks[i][2])
          /\ MapGet(OccupiedCells, VisibleBooks[i][2]) = VisibleBooks[i][1]
    /\ \A i \in 1..Len(OccupiedCells) :
          /\ MapHas(VisibleBooks, OccupiedCells[i][2])
          /\ MapGet(VisibleBooks, OccupiedCells[i][2]) = OccupiedCells[i][1]
    /\ \A i, j \in 1..Len(VisibleBooks) :
          i # j => /\ VisibleBooks[i][1] # VisibleBooks[j][1]
                   /\ VisibleBooks[i][2] # VisibleBooks[j][2]
    /\ \A i, j \in 1..Len(OccupiedCells) : i # j => OccupiedCells[i][1] # OccupiedCells[j][1]
    /\ Len(VisibleBooks) <= 12
    /\ Len(OccupiedCells) = Len(VisibleBooks)

C21_Witness ==
    /\ Len(VisibleBooks) = 12
    /\ CellReused

\* C22: after updateForYear(year) every visible book has
\* start - leadYears <= year <= end + leadYears, a book in that range is not
\* displayed only if all 12 cells are occupied, and with at most 12 books in
\* range the visible books are exactly the books in range.
C22_VisibleInRange ==
    bookManager.currentYear # Null =>
        LET year == bookManager.currentYear[1]
        IN  /\ VisibleIds \subseteq InRangeBooks(year)
            /\ VisibleIds # InRangeBooks(year) => Len(OccupiedCells) = 12
            /\ Cardinality(InRangeBooks(year)) <= 12 => VisibleIds = InRangeBooks(year)

C22_Witness ==
    /\ bookManager.currentYear # Null
    /\ Len(OccupiedCells) = 12
    /\ VisibleIds # InRangeBooks(bookManager.currentYear[1])
    /\ ~CellReused

\* C25: a book visible before and after a call keeps its cell, and a book the
\* call adds takes the lowest cell that is free when it is added: every lower
\* cell is held by a book that stayed or by a book added before it.
C25_FixedCell ==
    [][LET before == bookManager.visibleBooks
           after == bookManager'.visibleBooks
           order == bookManager.booksByDate
           rank(id) == CHOOSE k \in 1..Len(order) : order[k].id = id
       IN  /\ \A i \in 1..Len(after) :
                MapHas(before, after[i][1]) => MapGet(before, after[i][1]) = after[i][2]
           /\ \A i \in 1..Len(after) :
                ~MapHas(before, after[i][1]) =>
                    \A c \in 0..(after[i][2] - 1) :
                        \E j \in 1..Len(after) :
                            /\ after[j][2] = c
                            /\ \/ MapHas(before, after[j][1])
                               \/ rank(after[j][1]) < rank(after[i][1])]_bookManager

C25_Witness ==
    /\ CellReused
    /\ Len(VisibleBooks) < 12
    /\ Len(VisibleBooks) > 1

\* --------------------------------------- properties of the MessageManager
VisibleMessageIds ==
    {messageManager.visibleMessages[i][1] : i \in 1..Len(messageManager.visibleMessages)}
\* the message-box elements in the container with data-message-id = id
BoxesOf(id) ==
    {i \in 1..Len(messageManager.elements) :
        messageManager.elements[i].inDom /\ messageManager.elements[i].id = id}

\* C26: with the container present, after updateForYear(year) the visible
\* messages are exactly the messages with yearStart <= year <= yearEnd, and
\* after clear() (and before any call) there is none.
C26_MessagesInRange ==
    messageManager.container =>
        /\ messageManager.currentYear # Null =>
              VisibleMessageIds =
                  {i \in 1..Len(messages) :
                      /\ messages[i].yearStart <= messageManager.currentYear[1]
                      /\ messageManager.currentYear[1] <= messages[i].yearEnd}
        /\ messageManager.currentYear = Null => VisibleMessageIds = {}
        /\ \A i, j \in 1..Len(messageManager.visibleMessages) :
              i # j => messageManager.visibleMessages[i][1] # messageManager.visibleMessages[j][1]

C26_Witness ==
    /\ messageManager.container
    /\ messageManager.currentYear # Null
    /\ Cardinality(VisibleMessageIds) = 1
    /\ Len(messages) = 2
    /\ \E i \in 1..Len(messageManager.elements) :
          ~messageManager.elements[i].shown /\ messageManager.elements[i].inDom

\* C27: the message container never holds two message-box elements of the
\* same message id.
C27_OneBoxPerMessage ==
    \A id \in 1..Len(messages) : Cardinality(BoxesOf(id)) <= 1

\* ------------------- properties of the milestone cards and the renderer
VisibleCards ==
    {milestoneCardManager.visibleMilestones[i][1] :
        i \in 1..Len(milestoneCardManager.visibleMilestones)}
\* C28: after updateForYear(year) a milestone card is visible exactly when
\* year >= milestone.year - 15, and from one updateForYear to the next with a
\* year not smaller no visible card is removed.
C28_CardsStack ==
    [][milestoneCardManager'.currentYear # Null =>
          /\ LET V == {milestoneCardManager'.visibleMilestones[i][1] :
                          i \in 1..Len(milestoneCardManager'.visibleMilestones)}
             IN  /\ V = {i \in 1..Len(milestones) :
                            milestoneCardManager'.currentYear[1] >= milestones[i].year - 15}
                 /\ (/\ milestoneCardManager.currentYear # Null
                     /\ milestoneCardManager'.currentYear[1]
                            >= milestoneCardManager.currentYear[1])
                        => VisibleCards \subseteq V
      ]_milestoneCardManager

C28_Witness ==
    /\ milestoneCardManager # Null
    /\ milestoneCardManager.currentYear = Some(378)
    /\ VisibleCards = {1, 2, 3}

\* the milestone markers that carry 'label-visible'
LabelledMilestones ==
    {i \in 1..Len(renderer.milestones) : renderer.milestones[i].labelVisible}

\* C29: after update(year) a milestone marker carries 'label-visible' exactly
\* when its year is the greatest milestone year <= year and
\* year < CURRENT_YEAR - 50, so at most one label shows and none while the
\* "You are here" marker shows; it carries 'tick-visible' exactly when its
\* year <= year.
C29_MilestoneLabels ==
    (renderer # Null /\ renderer.currentYear # Null) =>
        LET year == renderer.currentYear[1]
            ms == renderer.milestones
        IN  /\ \A i \in 1..Len(ms) :
                  /\ ms[i].labelVisible <=>
                        /\ ms[i].year <= year
                        /\ \A j \in 1..Len(ms) : ms[j].year <= year => ms[j].year <= ms[i].year
                        /\ year < CURRENT_YEAR - 50
                  /\ ms[i].tickVisible <=> ms[i].year <= year
            /\ Cardinality(LabelledMilestones) <= 1
            /\ renderer.youAreHereClass => LabelledMilestones = {}

C29_Witness ==
    /\ renderer # Null
    /\ renderer.currentYear = Some(396)
    /\ Cardinality(LabelledMilestones) = 1
    /\ Cardinality({i \in 1..Len(renderer.milestones) : renderer.milestones[i].tickVisible}) = 2

\* the number of canonization years passed at the year displayed
CanonPassed(r) ==
    IF r.currentYear = Null THEN 0
    ELSE Cardinality({y \in {382, 393, 397, 405, 1546} : y <= r.currentYear[1]})

\* C30: with the tick container present, canonizationLevel is the number of
\* the years 382, 393, 397, 405, 1546 that are <= the year displayed, the
\* container carries at most one canon-level class, and from the first change
\* of the level on it carries exactly the class of the level.
C30_CanonLevel ==
    [][renderer'.tickContainer =>
          /\ renderer'.canonizationLevel = CanonPassed(renderer')
          /\ renderer'.canonizationLevel \in 0..5
          /\ Cardinality(renderer'.canonClasses) <= 1
          /\ renderer'.canonClasses \subseteq {renderer'.canonizationLevel}
          /\ renderer'.canonizationLevel # renderer.canonizationLevel
                => renderer'.canonClasses = {renderer'.canonizationLevel}
          /\ renderer.canonClasses # {} => renderer'.canonClasses # {}
      ]_renderer

C30_Witness ==
    /\ renderer # Null
    /\ renderer.tickContainer
    /\ renderer.currentYear = Some(381)
    /\ renderer.canonClasses = {0}

\* ------------------------------------------- properties of handleScroll
\* the scroll position the last handleScroll read lies in the intro, in the
\* closing section
InIntro == 2 * view.at[1] < IntroHeight
InClosing == ~InIntro /\ 2 * view.at[1] > 2 * ClosingOffset - InnerHeight
\* the three managers show nothing and the book columns are hidden
PageIdle ==
    /\ bookManager.visibleBooks = <<>>
    /\ bookManager.occupiedCells = <<>>
    /\ messageManager.visibleMessages = <<>>
    /\ milestoneCardManager.visibleMilestones = <<>>
    /\ ~view.columns

\* C23: after every handleScroll, below half the intro height the renderer
\* shows minYear with the highlight off, beyond the closing offset less half
\* the window height it shows maxYear with the highlight on, in both states the
\* three managers show nothing, the book columns are hidden and scrollToYear is
\* not called; anywhere else scrollToYear is called with a progress in [0, 1],
\* the renderer and the three managers are updated with the year it returns
\* and the book columns are visible.
C23_ScrollZones ==
    /\ [](view.at # Null =>
            IF InIntro
            THEN /\ renderer.currentYear = Some(yearMapping.minYear)
                 /\ ~renderer.isHighlighted
                 /\ PageIdle
            ELSE IF InClosing
            THEN /\ renderer.currentYear = Some(yearMapping.maxYear)
                 /\ renderer.isHighlighted
                 /\ PageIdle
            ELSE /\ call.fn = "scrollToYear"
                 /\ RLeq(Num(0), call.arg)
                 /\ RLeq(call.arg, Num(1))
                 /\ renderer.currentYear = Some(call.ret)
                 /\ bookManager.currentYear = Some(call.ret)
                 /\ messageManager.currentYear = Some(call.ret)
                 /\ milestoneCardManager.currentYear = Some(call.ret)
                 /\ view.columns)
    /\ [][(pending > 0 /\ pending' = 0 /\ 2 * scrollY < IntroHeight) => call' = call]_vars
    /\ [][(pending > 0 /\ pending' = 0 /\ 2 * scrollY > 2 * ClosingOffset - InnerHeight)
             => call' = call]_vars

\* the page back in the intro after scrollToYear has been asked and a frame has run
C23_Witness ==
    /\ view.at # Null
    /\ InIntro
    /\ frameRuns > 0
    /\ call.fn = "scrollToYear"
    /\ PageIdle

\* ------------------------------------------- properties of the phases
\* the style of the element of book id, and the book's entry in booksByDate
StyleOf(id) == MapGet(bookManager.styles, id)
EntryOf(id) ==
    bookManager.booksByDate[CHOOSE i \in 1..Len(bookManager.booksByDate) :
                                bookManager.booksByDate[i].id = id]

\* C31: every book visible after updateForYear(year) has phase 'entering' iff
\* year < start, 'visible' iff start <= year <= end and 'exiting' iff
\* year > end; its translateY is 0 when visible, above 0 when entering, below
\* 0 when exiting, at most scrollRange in magnitude, and its opacity lies in
\* [0, 1].
C31_Phases ==
    (bookManager # Null /\ bookManager.currentYear # Null) =>
        \A id \in VisibleIds :
            /\ MapHas(bookManager.styles, id)
            /\ LET year == bookManager.currentYear[1]
                   entry == EntryOf(id)
                   style == StyleOf(id)
               IN  /\ style.phase = "entering" <=> year < entry.start
                   /\ style.phase = "visible" <=> (entry.start <= year /\ year <= entry.end)
                   /\ style.phase = "exiting" <=> year > entry.end
                   /\ style.phase \in {"entering", "visible", "exiting"}
                   /\ style.phase = "visible" => style.translateY = Num(0)
                   /\ style.phase = "entering" => RLt(Num(0), style.translateY)
                   /\ style.phase = "exiting" => RLt(style.translateY, Num(0))
                   /\ RLeq(style.translateY, Num(entry.scrollRange))
                   /\ RLeq(Num(-entry.scrollRange), style.translateY)
                   /\ RLeq(Num(0), style.opacity)
                   /\ RLeq(style.opacity, Num(1))

\* one book on its way in and one on its way out in the same year, neither at
\* the end of its way
C31_Witness ==
    /\ bookManager # Null
    /\ bookManager.currentYear # Null
    /\ \E b, c \in VisibleIds :
          /\ StyleOf(b).phase = "exiting"
          /\ RLt(Num(-EntryOf(b).scrollRange), StyleOf(b).translateY)
          /\ RLt(Num(0), StyleOf(b).opacity)
          /\ StyleOf(c).phase = "entering"
          /\ RLt(StyleOf(c).translateY, Num(EntryOf(c).scrollRange))

\* ------------------------------------------ properties of the era labels
LabelledDividers ==
    {i \in 1..Len(renderer.eraDividers) : renderer.eraDividers[i].labelVisible}

\* C33: after updateEraDividers(year) on initialized dividers exactly one
\* divider carries 'label-visible', the divider of getEraForYear(year), and a
\* divider carries 'tick-visible' and has visible = true exactly when
\* year >= the start year of its era.
C33_EraLabels ==
    (renderer # Null /\ renderer.currentYear # Null /\ renderer.eraDividers # <<>>) =>
        LET year == renderer.currentYear[1]
            ds == renderer.eraDividers
        IN  /\ Cardinality(LabelledDividers) = 1
            /\ \A i \in LabelledDividers : ds[i].era = getEraForYear(year, CURRENT_YEAR)
            /\ \A i \in 1..Len(ds) :
                  LET starts == {j \in 1..Len(ERAS(CURRENT_YEAR)) :
                                    ERAS(CURRENT_YEAR)[j].id = ds[i].era}
                  IN  /\ Cardinality(starts) = 1
                      /\ \A j \in starts :
                            /\ ds[i].tickVisible <=> year >= ERAS(CURRENT_YEAR)[j].start[1]
                            /\ ds[i].visible <=> year >= ERAS(CURRENT_YEAR)[j].start[1]

C33_Witness ==
    /\ renderer # Null
    /\ renderer.currentYear = Some(-1000)
    /\ \E i \in LabelledDividers : renderer.eraDividers[i].era = "united-kingdom"
    /\ Cardinality({i \in 1..Len(renderer.eraDividers) :
                       renderer.eraDividers[i].tickVisible}) = 5

\* ------------------------------------- properties of the resize listener
\* C32: the resize listener runs handleScroll only when 100 ms have passed
\* since the most recent resize event; after a resize event it runs it exactly
\* once, 100 ms after the event, unless another resize event comes first.
C32_Debounce ==
    /\ [](/\ resize.runs <= 1
          /\ resize.runs = 1 =>
                /\ resize.invokedAfter = Some(RESIZE_DELAY)
                /\ resize.timers = <<>>
          /\ (resize.since # Null /\ resize.runs = 0) =>
                resize.timers = <<RESIZE_DELAY - resize.since[1]>>
          /\ resize.since = Null => (resize.runs = 0 /\ resize.timers = <<>>))
    /\ (resize.since # Null /\ resize.runs = 0) ~> (resize.runs = 1 \/ resize.since = Some(0))

\* the listener has run after a burst: a resize event came less than 100 ms
\* after another, and 100 ms after it handleScroll ran
C32_Witness ==
    /\ resize.runs = 1
    /\ resize.invokedAfter = Some(RESIZE_DELAY)
    /\ resize.since = Some(RESIZE_DELAY)
    /\ view.at = Some(scrollY)

====
